---- MODULE Spec2Model ----
(***************************************************************************)
(* JobGuard: PostgreSQL durability for Bull / BullMQ / Bee-Queue.          *)
(*                                                                         *)
(* The model covers the jobguard_jobs table with its partial unique index  *)
(* and the SQL statements of persistence/queries.ts, the repository        *)
(* methods built on them, the adapters' wrapped submit and lifecycle event *)
(* handlers, the reconciler cycle (stuck harvest followed by the step-wise *)
(* re-enqueue of each harvested record), the heartbeat and the cleanup     *)
(* job, together with the broker (Redis) state the adapters read and       *)
(* write.                                                                  *)
(*                                                                         *)
(* The specifications share the definitions:                               *)
(*   SpecRepo  the repository under every interleaving of its methods on   *)
(*             one key, as the adapters, workers, reconcilers and the      *)
(*             cleanup timer call them, with two getAndMarkStuckJobs       *)
(*             transactions that may be open at the same time;             *)
(*   SpecHarvest  getAndMarkStuckJobs on tables holding rows of two keys,  *)
(*             two invocations running concurrently with the clock, the    *)
(*             workers' heartbeats and failure reports;                    *)
(*   Spec      one coordinator attached to a Bull or BullMQ queue (their   *)
(*             adapters take the same steps): producer, broker, event      *)
(*             handlers, worker heartbeat, reconciler and cleanup;         *)
(*   LiveSpec  Spec with the database reachable and with the fairness of   *)
(*             the clock, the handlers' writes and the reconciler;         *)
(*   SpecBreaker  one CircuitBreaker whose callers issue execute calls     *)
(*             concurrently, with operations that succeed or fail at will; *)
(*   SpecControl  the timers of one coordinator: Reconciler.run with its   *)
(*             guards and failure counter, forceRun, stop, the cleanup     *)
(*             interval and shutdown, every repository call going through  *)
(*             the circuit breaker to a database that may be unreachable;  *)
(*   LiveControl  SpecControl left to itself (no forceRun, stop or         *)
(*             shutdown), with the fairness of timers and awaited calls;   *)
(*   SpecAdapter  one adapter of each variant after initialize(): the      *)
(*             wrapped submit with its validation, the event handlers and  *)
(*             the heartbeat, every repository call going through the      *)
(*             circuit breaker, and dispose;                               *)
(*   SpecConfig  JobGuard.create under every reconciliation configuration  *)
(*             and the adaptive scheduler of the reconciler it builds;     *)
(*   SpecShutdown  JobGuard.shutdown called by two callers that overlap;   *)
(*   SpecTypes  SpecHarvest on a table whose rows belong to two queues of  *)
(*             one queue_name and different queue types;                   *)
(*   SpecEvents  the lifecycle listeners with handlers that are not        *)
(*             awaited: several handler writes in flight at once;          *)
(*   LiveStall  jobs whose every execution stalls, with the fairness of    *)
(*             the clock, the worker, the handlers and the reconciler;     *)
(*   LiveRetention  LiveSpec with the cleanup timer firing for ever;       *)
(*   SpecLoop  the re-enqueue loop of one reconciliation cycle with its    *)
(*             rate limit.                                                 *)
(* The first four specifications leave the circuit breaker and the timers  *)
(* in their initial state; in SpecControl one pass of the re-enqueue loop  *)
(* is one step.                                                            *)
(* The Bee-Queue re-enqueue acts on the table through createJob (the saved *)
(* new job) and updateJobStatus(failed), which SpecRepo interleaves.       *)
(*                                                                         *)
(* Time.  The queries compare timestamps only with NOW() minus a constant, *)
(* so every timestamp column holds the time elapsed since it was written   *)
(* (NOW() - column), in ticks, saturating one tick above the constant it   *)
(* is compared with.  "column = NOW()" is the value 0; NULL is NULL.       *)
(* created_at and started_at are compared with nothing and saturate at 0;  *)
(* last_heartbeat and updated_at are read only by the stuck harvest, which *)
(* looks at processing rows, so their elapsed time is kept only while the  *)
(* row is processing.                                                      *)
(*                                                                         *)
(* The text columns job_name and error_message are not modelled.           *)
(*                                                                         *)
(* All rows belong to the (queue_name, queue_type) of the one coordinator  *)
(* that is modelled, so a row's business key is its job_id; only in        *)
(* SpecTypes the rows carry the column queue_type.                         *)
(***************************************************************************)
EXTENDS Integers, Sequences, FiniteSets, TLC

----------------------------------------------------------------------------
(* Bounds of the model *)

MaxRows == 2            \* rows ever inserted into jobguard_jobs
MaxInflight == 1        \* database writes of event handlers in flight
MaxAttemptsCount == 2   \* largest value of the attempts column
BatchSize == 2          \* reconciliation.batchSize (LIMIT of the harvest)
StuckThreshold == 1     \* reconciliation.stuckThresholdMs, in ticks
RetentionDays == 0      \* persistence.retentionDays, in ticks
CbThreshold == 2        \* CircuitBreaker threshold (failures before opening)
CbTimeout == 1          \* CircuitBreaker timeout, in ticks
MaxFailureCount == 3    \* largest value of CircuitBreaker.failureCount
MaxTimers == 2          \* pending setTimeout callbacks of the Reconciler
MaxRecords == 4         \* recordResult calls on one AdaptiveScheduler
MaxPending == 2         \* handler writes in flight when the handlers are not awaited
MaxLoopJobs == 3        \* jobs one harvest returns for re-enqueue

JobIds == {"j1", "j2"}          \* job ids of the queue
KeyJobIds == {"j1"}             \* job ids used by SpecRepo and Spec
Datas == {"d1", "d2"}           \* job payloads
AttemptsOpts == {1, 2}          \* opts.attempts passed by producers
Txs == {1, 2}                   \* concurrent getAndMarkStuckJobs invocations

(* Program constants *)

DEFAULT_MAX_ATTEMPTS == 3       \* maxAttempts || 3
MAX_CONSECUTIVE_FAILURES == 3   \* Reconciler.MAX_CONSECUTIVE_FAILURES, JobGuard.MAX_CONSECUTIVE_FAILURES

MAX_NAME_LENGTH == 255             \* validateJobData
MAX_DATA_SIZE == 1048576           \* validateJobData: 1MB
MIN_STUCK_THRESHOLD == 60000       \* Reconciler constructor

\* AdaptiveScheduler multiplies by 1.5 and by 0.8: intervals are held in
\* units of 1/Scale ms; with base intervals that are multiples of 1000 ms
\* five multiplications in a row are exact
Scale == 100

NULL == -1

PENDING == "pending"
PROCESSING == "processing"
COMPLETED == "completed"
FAILED == "failed"
STUCK == "stuck"
DEAD == "dead"

JobStatus == {PENDING, PROCESSING, COMPLETED, FAILED, STUCK, DEAD}

\* status NOT IN ('completed', 'failed', 'dead') is the predicate of the
\* partial unique index and of the UPSERT
Terminal == {COMPLETED, FAILED, DEAD}

----------------------------------------------------------------------------
(* The table jobguard_jobs and its statements *)

\* idx_unique_active_job: at most one row per key outside the terminal states
idx_unique_active_job(rs) ==
    \A r1 \in rs : \A r2 \in rs :
        (r1.id # r2.id /\ r1.job_id = r2.job_id)
            => (r1.status \in Terminal \/ r2.status \in Terminal)

\* the statement executed without the unique index
Statement_noIndex(rs, after) == after

\* A statement that would violate the unique index fails and changes nothing.
Statement(rs, after) ==
    IF idx_unique_active_job(after) THEN after ELSE rs

StatementFails(after) == ~idx_unique_active_job(after)

\* trigger update_jobguard_jobs_updated_at: BEFORE UPDATE, updated_at = NOW()
update_updated_at_column(r) == [r EXCEPT !.updated_at = 0]

NewRow(id, jobId, data, maxAttempts) ==
    [id |-> id, job_id |-> jobId, data |-> data, status |-> PENDING,
     attempts |-> 0, max_attempts |-> maxAttempts,
     created_at |-> 0, updated_at |-> 0, started_at |-> NULL,
     completed_at |-> NULL, last_heartbeat |-> NULL]

\* the UPSERT with the whole key as arbiter: every row of the key conflicts
INSERT_JOB_fullKey(rs, id, jobId, data, maxAttempts) ==
    IF \E r \in rs : r.job_id = jobId
    THEN { IF r.job_id = jobId
           THEN update_updated_at_column(
                    [r EXCEPT !.data = data, !.status = PENDING, !.attempts = 0])
           ELSE r : r \in rs }
    ELSE rs \cup {NewRow(id, jobId, data, maxAttempts)}

\* the UPSERT with data missing from its SET clause
INSERT_JOB_keepsData(rs, id, jobId, data, maxAttempts) ==
    IF \E r \in rs : r.job_id = jobId /\ r.status \notin Terminal
    THEN { IF r.job_id = jobId /\ r.status \notin Terminal
           THEN update_updated_at_column(
                    [r EXCEPT !.status = PENDING, !.attempts = 0])
           ELSE r : r \in rs }
    ELSE rs \cup {NewRow(id, jobId, data, maxAttempts)}

\* INSERT ... ON CONFLICT (key) WHERE status NOT IN terminal DO UPDATE ...
\* The arbiter is the partial index: only a non-terminal row conflicts.
INSERT_JOB(rs, id, jobId, data, maxAttempts) ==
    IF \E r \in rs : r.job_id = jobId /\ r.status \notin Terminal
    THEN { IF r.job_id = jobId /\ r.status \notin Terminal
           THEN update_updated_at_column(
                    [r EXCEPT !.data = data, !.status = PENDING, !.attempts = 0])
           ELSE r : r \in rs }
    ELSE rs \cup {NewRow(id, jobId, data, maxAttempts)}

InsertsRow(rs, jobId) ==
    ~ \E r \in rs : r.job_id = jobId /\ r.status \notin Terminal

UpdateStatusRow(r, status) ==
    update_updated_at_column(
        [r EXCEPT !.status = status,
                  !.started_at = IF status = PROCESSING THEN 0 ELSE @,
                  !.last_heartbeat = IF status = PROCESSING THEN 0 ELSE @,
                  !.completed_at = IF status \in Terminal THEN 0 ELSE @])

\* UPDATE ... SET status = $1 ... WHERE queue_name, queue_type, job_id
UPDATE_JOB_STATUS(rs, status, jobId) ==
    { IF r.job_id = jobId THEN UpdateStatusRow(r, status) ELSE r : r \in rs }

\* the comparison with > in place of >=: one failure more before dead
UpdateErrorRow_strict(r) ==
    update_updated_at_column(
        [r EXCEPT !.attempts = @ + 1,
                  !.status = IF r.attempts + 1 > r.max_attempts
                             THEN DEAD ELSE FAILED,
                  !.completed_at = IF r.attempts + 1 > r.max_attempts
                                   THEN 0 ELSE @])

UpdateErrorRow(r) ==
    update_updated_at_column(
        [r EXCEPT !.attempts = @ + 1,
                  !.status = IF r.attempts + 1 >= r.max_attempts
                             THEN DEAD ELSE FAILED,
                  !.completed_at = IF r.attempts + 1 >= r.max_attempts
                                   THEN 0 ELSE @])

\* UPDATE ... SET attempts = attempts + 1 ... WHERE queue_name, queue_type, job_id
UPDATE_JOB_ERROR(rs, jobId) ==
    { IF r.job_id = jobId THEN UpdateErrorRow(r) ELSE r : r \in rs }

\* COALESCE(last_heartbeat, updated_at)
Liveness(r) == IF r.last_heartbeat # NULL THEN r.last_heartbeat ELSE r.updated_at

\* the comparison with <= in place of <: a row is stale at the threshold
IsStale_atThreshold(r, thresholdMs) == r.status = PROCESSING /\ Liveness(r) >= thresholdMs

\* WHERE status = 'processing' AND COALESCE(...) < NOW() - threshold
IsStale(r, thresholdMs) == r.status = PROCESSING /\ Liveness(r) > thresholdMs

\* the select without FOR UPDATE SKIP LOCKED: locked rows are read as well
GET_STUCK_JOBS_noSkipLocked(rs, thresholdMs, batchSize, locked) ==
    LET cand == { r \in rs : IsStale(r, thresholdMs) }
        n == IF Cardinality(cand) < batchSize THEN Cardinality(cand) ELSE batchSize
    IN { S \in SUBSET cand :
            /\ Cardinality(S) = n
            /\ \A r \in S : \A q \in cand \ S : Liveness(r) >= Liveness(q) }

\* ORDER BY COALESCE(...) ASC LIMIT batchSize FOR UPDATE SKIP LOCKED: the
\* possible result sets, given the row ids locked by other transactions
GET_STUCK_JOBS(rs, thresholdMs, batchSize, locked) ==
    LET cand == { r \in rs : IsStale(r, thresholdMs) /\ r.id \notin locked }
        n == IF Cardinality(cand) < batchSize THEN Cardinality(cand) ELSE batchSize
    IN { S \in SUBSET cand :
            /\ Cardinality(S) = n
            /\ \A r \in S : \A q \in cand \ S : Liveness(r) >= Liveness(q) }

\* UPDATE ... SET status = 'stuck' WHERE id = ANY($1)
MARK_AS_STUCK(rs, ids) ==
    { IF r.id \in ids
      THEN update_updated_at_column([r EXCEPT !.status = STUCK])
      ELSE r : r \in rs }

\* UPDATE ... SET status = 'dead', completed_at = NOW() WHERE id in $1
BULK_MARK_DEAD(rs, ids) ==
    { IF r.id \in ids
      THEN update_updated_at_column([r EXCEPT !.status = DEAD, !.completed_at = 0])
      ELSE r : r \in rs }

\* the delete without its condition on status
DELETE_OLD_JOBS_anyStatus(rs, retentionDays) ==
    { r \in rs : ~ (r.completed_at # NULL /\ r.completed_at > retentionDays) }

\* DELETE ... WHERE status IN terminal AND completed_at < NOW() - retention
DELETE_OLD_JOBS(rs, retentionDays) ==
    { r \in rs : ~ (r.status \in Terminal /\ r.completed_at # NULL
                    /\ r.completed_at > retentionDays) }

\* SELECT * ... WHERE queue_name, queue_type, job_id: all rows of the key
GET_JOB(rs, jobId) == { r \in rs : r.job_id = jobId }

\* the update without AND status = 'processing'
UPDATE_HEARTBEAT_anyStatus(rs, jobId) ==
    { IF r.job_id = jobId
      THEN update_updated_at_column([r EXCEPT !.last_heartbeat = 0])
      ELSE r : r \in rs }

\* UPDATE ... SET last_heartbeat = NOW() WHERE key AND status = 'processing'
UPDATE_HEARTBEAT(rs, jobId) ==
    { IF r.job_id = jobId /\ r.status = PROCESSING
      THEN update_updated_at_column([r EXCEPT !.last_heartbeat = 0])
      ELSE r : r \in rs }

----------------------------------------------------------------------------
(* State *)

VARIABLES
    rows,           \* the table jobguard_jobs: a set of row records
    nextId,         \* next value of uuid_generate_v4()
    tx,             \* SpecRepo: the getAndMarkStuckJobs invocations
    broker,         \* Redis: job id -> the broker's job hash
    inflight,       \* database writes issued by handlers, not yet executed
    rcPc,           \* position of Reconciler.run / reEnqueueJob
    rcJobs,         \* jobsToReEnqueue still to be processed (head = current)
    rcDead,         \* deadJobIds returned by the last harvest
    rcCurrent,      \* reEnqueueJob: status of currentJob, "none" before the read
    rcRemoved,      \* reEnqueueJob: result of atomicRemoveJob
    rcSubmits,      \* reEnqueueJob: calls of originalAdd for the head record
    state,          \* CircuitBreaker.state
    failureCount,   \* CircuitBreaker.failureCount
    lastFailureTime,\* CircuitBreaker: Date.now() - lastFailureTime, in ticks
    calls,          \* execute calls whose operation is awaited: caller -> state at admission
    lastResult,     \* how the latest execute call ended or was refused
    isRunning,      \* Reconciler.isRunning
    isStopped,      \* Reconciler.isStopped
    consecutiveFailures, \* Reconciler.consecutiveFailures
    timers,         \* Reconciler: pending setTimeout callbacks
    intervalHandle, \* Reconciler: the timer of intervalHandle is pending
    cycle,          \* Reconciler.run invocations past the guards: position and jobsToReEnqueue
    dbUp,           \* PostgreSQL accepts connections
    cleanupInterval,\* JobGuard: the setInterval of setupCleanup is active
    cleanupFailures,\* JobGuard.cleanupFailures
    initialized,    \* JobGuard.initialized
    queueType,      \* the adapter variant QueueDetector created
    submitOp,       \* the queue's submit operation (add / createJob): original or wrapped
    hasOriginalAdd, \* BaseAdapter.originalAdd is set
    listeners,      \* lifecycle listeners of the adapter attached to the queue
    isDisposed,     \* BaseAdapter.isDisposed
    submit,         \* the producer's submit call in flight, and how the last one ended
    escaped,        \* errors that left a handler towards the producer or the emitter
    shutdownPc,     \* JobGuard.shutdown calls: caller -> position
    disposeCalls,   \* calls of adapter.dispose() made by shutdown
    closeCalls,     \* calls of connectionManager.close() (pool.end())
    config,         \* the reconciliation section of JobGuardConfig
    created,        \* how JobGuard.create ended
    rcConfig,       \* Reconciler.config (the options with their defaults applied)
    currentIntervalMs,    \* AdaptiveScheduler.currentIntervalMs, in 1/Scale ms
    consecutiveEmptyRuns, \* AdaptiveScheduler.consecutiveEmptyRuns
    records,        \* recordResult calls made so far
    loopPc,         \* Reconciler.run, re-enqueue loop: idle / call / sleep
    loopLength,     \* jobsToReEnqueue.length
    loopIndex,      \* position of the loop in jobsToReEnqueue
    reEnqueuedCount,\* Reconciler.run: reEnqueuedCount
    failedCount,    \* Reconciler.run: failedCount
    rateLimitPerSecond, \* Reconciler.config.rateLimitPerSecond
    lastOutcome,    \* how the latest adapter.reEnqueueJob call ended
    waitedMs        \* ms slept since the latest adapter.reEnqueueJob call

dbVars == <<rows, nextId>>
rcVars == <<rcPc, rcJobs, rcDead, rcCurrent, rcRemoved, rcSubmits>>
queueVars == <<broker, inflight, rcVars>>
cbVars == <<state, failureCount, lastFailureTime, calls, lastResult>>
rnVars == <<isRunning, isStopped, consecutiveFailures, timers, intervalHandle, cycle>>
jgVars == <<dbUp, cleanupInterval, cleanupFailures, initialized>>
adVars == <<queueType, submitOp, hasOriginalAdd, listeners, isDisposed, submit, escaped>>
sdVars == <<shutdownPc, disposeCalls, closeCalls>>
cfVars == <<config, created, rcConfig, currentIntervalMs, consecutiveEmptyRuns, records>>
rlVars == <<loopPc, loopLength, loopIndex, reEnqueuedCount, failedCount,
           rateLimitPerSecond, lastOutcome, waitedMs>>
extVars == <<adVars, sdVars, cfVars, rlVars>>
ctlVars == <<cbVars, rnVars, jgVars, extVars>>
vars == <<rows, nextId, tx, broker, inflight, rcVars, ctlVars>>

AbsentJob == [state |-> "absent", attemptsMade |-> 0, attempts |-> 0]

IdleTx == [pc |-> "idle", stuckJobs |-> <<>>, toReEnqueue |-> <<>>, deadJobIds |-> {}]

CLOSED == "closed"
OPEN == "open"
HALF_OPEN == "half_open"

\* callers of CircuitBreaker.execute
Cycles == {"run1", "run2"}          \* invocations of Reconciler.run (getAndMarkStuckJobs)
Callers == Cycles \cup {"cleanup"}  \* and the cleanup timer (deleteOldJobs)

IdleCycle == [pc |-> "none", jobs |-> <<>>]

QueueTypes == {"bull", "bullmq", "bee"}

\* 'active' / 'completed' / 'failed' of Bull and of BullMQ's QueueEvents;
\* Bee-Queue names them 'job progress' / 'job succeeded' / 'job failed'
Events == {"active", "completed", "failed"}

ShutdownCallers == {"s1", "s2"}     \* callers of JobGuard.shutdown

IdleSubmit ==
    [pc |-> "idle", nameLength |-> 0, byteLength |-> 0, serializable |-> TRUE,
     via |-> "none", adds |-> 0, result |-> "none", wrote |-> FALSE]

\* ReconciliationConfig with every option absent (NULL stands for undefined)
DefaultConfig ==
    [enabled |-> TRUE, intervalMs |-> NULL, stuckThresholdMs |-> NULL,
     adaptiveScheduling |-> TRUE]

\* no Reconciler was constructed
NoReconciler ==
    [enabled |-> FALSE, intervalMs |-> NULL, stuckThresholdMs |-> NULL,
     adaptiveScheduling |-> FALSE]

\* a Bull adapter after initialize()
InitAdapter ==
    /\ queueType = "bull"
    /\ submitOp = "wrapped"
    /\ hasOriginalAdd = TRUE
    /\ listeners = Events
    /\ isDisposed = FALSE
    /\ submit = IdleSubmit
    /\ escaped = FALSE

\* no shutdown call was made
InitShutdown ==
    /\ shutdownPc = [c \in ShutdownCallers |-> "none"]
    /\ disposeCalls = 0
    /\ closeCalls = 0

\* no cycle is in its re-enqueue loop; rateLimitPerSecond has its default
InitLoop ==
    /\ loopPc = "idle"
    /\ loopLength = 0
    /\ loopIndex = 0
    /\ reEnqueuedCount = 0
    /\ failedCount = 0
    /\ rateLimitPerSecond = 20
    /\ lastOutcome = "none"
    /\ waitedMs = 0

\* JobGuard.create with the default reconciliation options
InitConfig ==
    /\ config = DefaultConfig
    /\ created = "ready"
    /\ rcConfig = [enabled |-> TRUE, intervalMs |-> 30000, stuckThresholdMs |-> 300000,
                   adaptiveScheduling |-> TRUE]
    /\ currentIntervalMs = 30000 * Scale
    /\ consecutiveEmptyRuns = 0
    /\ records = 0

\* new CircuitBreaker, new Reconciler + start(), setupCleanup
InitControl ==
    /\ state = CLOSED
    /\ failureCount = 0
    /\ lastFailureTime = CbTimeout + 1
    /\ calls = [c \in Callers |-> "none"]
    /\ lastResult = "none"
    /\ isRunning = FALSE
    /\ isStopped = FALSE
    /\ consecutiveFailures = 0
    /\ timers = 1
    /\ intervalHandle = TRUE
    /\ cycle = [c \in Cycles |-> IdleCycle]
    /\ dbUp = TRUE
    /\ cleanupInterval = TRUE
    /\ cleanupFailures = 0
    /\ initialized = TRUE

Init ==
    /\ InitControl
    /\ InitAdapter
    /\ InitShutdown
    /\ InitLoop
    /\ InitConfig
    /\ rows = {}
    /\ nextId = 1
    /\ tx = [t \in Txs |-> IdleTx]
    /\ broker = [j \in JobIds |-> AbsentJob]
    /\ inflight = {}
    /\ rcPc = "idle"
    /\ rcJobs = <<>>
    /\ rcDead = {}
    /\ rcCurrent = "none"
    /\ rcRemoved = FALSE
    /\ rcSubmits = 0

----------------------------------------------------------------------------
(* Time *)

Age(t, horizon) ==
    IF t = NULL THEN NULL ELSE IF t > horizon THEN t ELSE t + 1

\* Elapsed time is kept where a statement compares it with NOW(): the
\* liveness timestamp of a processing row, completed_at of every row.
AgeRow(r) ==
    [r EXCEPT !.updated_at = IF r.status = PROCESSING /\ r.last_heartbeat = NULL
                             THEN Age(@, StuckThreshold) ELSE @,
              !.last_heartbeat = IF r.status = PROCESSING
                                 THEN Age(@, StuckThreshold) ELSE @,
              !.completed_at = Age(@, RetentionDays)]

\* one tick of wall-clock time passes
Tick ==
    /\ rows' = { AgeRow(r) : r \in rows }
    /\ rows' # rows
    /\ UNCHANGED <<nextId, tx, queueVars, ctlVars>>

----------------------------------------------------------------------------
(* JobRepository: one action per method, on the table alone *)

\* ids of the rows locked FOR UPDATE by the open transactions other than t
LockedBy(others) ==
    UNION { { tx[t].stuckJobs[i].id : i \in 1..Len(tx[t].stuckJobs) } :
            t \in { u \in others : tx[u].pc = "open" } }

\* a statement that has to write a locked row waits for the lock
NotLocked(rs) == \A r \in rs : r.id \notin LockedBy(Txs)

\* createJob: INSERT_JOB with status pending and attempts 0
createJob(jobId, data, maxAttempts) ==
    /\ NotLocked({ r \in rows : r.job_id = jobId /\ r.status \notin Terminal })
    /\ InsertsRow(rows, jobId) => nextId <= MaxRows
    /\ rows' = INSERT_JOB(rows, nextId, jobId, data, maxAttempts)
    /\ nextId' = IF InsertsRow(rows, jobId) THEN nextId + 1 ELSE nextId

\* updateJobStatus: UPDATE_JOB_STATUS
updateJobStatus(jobId, status) ==
    /\ NotLocked(GET_JOB(rows, jobId))
    /\ rows' = Statement(rows, UPDATE_JOB_STATUS(rows, status, jobId))
    /\ UNCHANGED nextId

\* updateJobError: UPDATE_JOB_ERROR
updateJobError(jobId) ==
    /\ NotLocked(GET_JOB(rows, jobId))
    /\ \A r \in GET_JOB(rows, jobId) : r.attempts < MaxAttemptsCount
    /\ rows' = Statement(rows, UPDATE_JOB_ERROR(rows, jobId))
    /\ UNCHANGED nextId

\* updateHeartbeat: UPDATE_HEARTBEAT
updateHeartbeat(jobId) ==
    /\ NotLocked({ r \in GET_JOB(rows, jobId) : r.status = PROCESSING })
    /\ rows' = UPDATE_HEARTBEAT(rows, jobId)
    /\ UNCHANGED nextId

\* deleteOldJobs: DELETE_OLD_JOBS
deleteOldJobs(retentionDays) ==
    /\ rows' = DELETE_OLD_JOBS(rows, retentionDays)
    /\ UNCHANGED nextId

----------------------------------------------------------------------------
(* getAndMarkStuckJobs: one transaction, BEGIN .. COMMIT *)

mapRowToJobRecord(r) ==
    [id |-> r.id, job_id |-> r.job_id, data |-> r.data,
     attempts |-> r.attempts, max_attempts |-> r.max_attempts]

\* the sequences listing the set S oldest liveness first
OrderedBy(S) ==
    { q \in [1..Cardinality(S) -> S] :
        /\ \A i, k \in 1..Cardinality(S) : i # k => q[i] # q[k]
        /\ \A i, k \in 1..Cardinality(S) : i < k => Liveness(q[i]) >= Liveness(q[k]) }

\* the filter with <= in the place of <
ToReEnqueue_offByOne(stuckJobs) ==
    SelectSeq(stuckJobs, LAMBDA job : job.attempts <= job.max_attempts)

\* stuckJobs.filter(job => job.attempts < job.max_attempts)
ToReEnqueue(stuckJobs) ==
    SelectSeq(stuckJobs, LAMBDA job : job.attempts < job.max_attempts)

\* stuckJobs.filter(job => job.attempts >= job.max_attempts).map(job => job.id)
DeadJobIds(stuckJobs) ==
    { stuckJobs[i].id : i \in { k \in 1..Len(stuckJobs) :
                                  stuckJobs[k].attempts >= stuckJobs[k].max_attempts } }

SeqIds(q) == { q[i].id : i \in 1..Len(q) }

\* MARK_AS_STUCK for every selected id, then BULK_MARK_DEAD for the dead set
MarkStuckJobs(rs, stuckJobs) ==
    BULK_MARK_DEAD(MARK_AS_STUCK(rs, SeqIds(stuckJobs)), DeadJobIds(stuckJobs))

\* BEGIN; GET_STUCK_JOBS ... FOR UPDATE SKIP LOCKED
getAndMarkStuckJobs_select(t) ==
    /\ tx[t].pc = "idle"
    /\ \E S \in GET_STUCK_JOBS(rows, StuckThreshold, BatchSize, LockedBy(Txs \ {t})) :
       \E q \in OrderedBy(S) :
          tx' = [tx EXCEPT ![t] =
                   [IdleTx EXCEPT !.pc = "open",
                                  !.stuckJobs = [i \in 1..Len(q) |-> mapRowToJobRecord(q[i])]]]
    /\ UNCHANGED <<dbVars, queueVars, ctlVars>>

\* MARK_AS_STUCK; BULK_MARK_DEAD; COMMIT; return the two sets
getAndMarkStuckJobs_commit(t) ==
    /\ tx[t].pc = "open"
    /\ rows' = MarkStuckJobs(rows, tx[t].stuckJobs)
    /\ tx' = [tx EXCEPT ![t] =
                [@ EXCEPT !.pc = "returned",
                          !.stuckJobs = <<>>,
                          !.toReEnqueue = ToReEnqueue(tx[t].stuckJobs),
                          !.deadJobIds = DeadJobIds(tx[t].stuckJobs)]]
    /\ UNCHANGED <<nextId, queueVars, ctlVars>>

\* catch: ROLLBACK; throw
getAndMarkStuckJobs_rollback(t) ==
    /\ tx[t].pc = "open"
    /\ tx' = [tx EXCEPT ![t] = IdleTx]
    /\ UNCHANGED <<dbVars, queueVars, ctlVars>>

\* Reconciler.run: for (const job of toReEnqueue) adapter.reEnqueueJob(job)
Reconciler_loop(t) ==
    /\ tx[t].pc = "returned"
    /\ tx' = [tx EXCEPT ![t] =
                IF Len(tx[t].toReEnqueue) <= 1 THEN IdleTx
                ELSE [@ EXCEPT !.toReEnqueue = Tail(@)]]
    /\ UNCHANGED <<dbVars, queueVars, ctlVars>>

----------------------------------------------------------------------------
(* SpecRepo: the repository under every interleaving of its callers *)

Repo_createJob(jobId, data, maxAttempts) ==
    createJob(jobId, data, maxAttempts) /\ UNCHANGED <<tx, queueVars, ctlVars>>

Repo_updateJobStatus(jobId, status) ==
    updateJobStatus(jobId, status) /\ rows' # rows /\ UNCHANGED <<tx, queueVars, ctlVars>>

Repo_updateJobError(jobId) ==
    updateJobError(jobId) /\ rows' # rows /\ UNCHANGED <<tx, queueVars, ctlVars>>

Repo_updateHeartbeat(jobId) ==
    updateHeartbeat(jobId) /\ rows' # rows /\ UNCHANGED <<tx, queueVars, ctlVars>>

Repo_deleteOldJobs ==
    deleteOldJobs(RetentionDays) /\ rows' # rows /\ UNCHANGED <<tx, queueVars, ctlVars>>

\* the statuses the adapters pass to updateJobStatus
AdapterStatuses == {PROCESSING, COMPLETED, PENDING, FAILED}

NextRepo ==
    \/ Tick
    \/ \E j \in KeyJobIds, d \in Datas, m \in AttemptsOpts : Repo_createJob(j, d, m)
    \/ \E j \in KeyJobIds, s \in AdapterStatuses : Repo_updateJobStatus(j, s)
    \/ \E j \in KeyJobIds : Repo_updateJobError(j)
    \/ \E j \in KeyJobIds : Repo_updateHeartbeat(j)
    \/ Repo_deleteOldJobs
    \/ \E t \in Txs : getAndMarkStuckJobs_select(t)
    \/ \E t \in Txs : getAndMarkStuckJobs_commit(t)
    \/ \E t \in Txs : getAndMarkStuckJobs_rollback(t)
    \/ \E t \in Txs : Reconciler_loop(t)

SpecRepo == Init /\ [][NextRepo]_vars

----------------------------------------------------------------------------
(* SpecHarvest: getAndMarkStuckJobs over the rows of two jobs *)

\* both jobs of the queue have been submitted
InitHarvest ==
    /\ InitControl
    /\ InitAdapter
    /\ InitShutdown
    /\ InitLoop
    /\ InitConfig
    /\ \E m1 \in AttemptsOpts, m2 \in AttemptsOpts :
          rows = INSERT_JOB(INSERT_JOB({}, 1, "j1", "d1", m1), 2, "j2", "d2", m2)
    /\ nextId = 3
    /\ tx = [t \in Txs |-> IdleTx]
    /\ broker = [j \in JobIds |-> AbsentJob]
    /\ inflight = {}
    /\ rcPc = "idle"
    /\ rcJobs = <<>>
    /\ rcDead = {}
    /\ rcCurrent = "none"
    /\ rcRemoved = FALSE
    /\ rcSubmits = 0

NextHarvest ==
    \/ Tick
    \/ \E j \in JobIds : Repo_updateJobStatus(j, PROCESSING)
    \/ \E j \in JobIds : Repo_updateJobError(j)
    \/ \E j \in JobIds : Repo_updateHeartbeat(j)
    \/ \E t \in Txs : getAndMarkStuckJobs_select(t)
    \/ \E t \in Txs : getAndMarkStuckJobs_commit(t)
    \/ \E t \in Txs : getAndMarkStuckJobs_rollback(t)
    \/ \E t \in Txs : Reconciler_loop(t)

SpecHarvest == InitHarvest /\ [][NextHarvest]_vars

\* Two coordinators on queues with the same queue_name and different broker
\* types share the table: the rows carry the column queue_type.  The
\* reconciler modelled is the one of the adapter of type queueType; job j1
\* belongs to its queue, job j2 to the queue of the other type.
WithQueueType(r, t) == r @@ [queue_type |-> t]

InitTypes ==
    /\ InitControl
    /\ InitAdapter
    /\ InitShutdown
    /\ InitLoop
    /\ InitConfig
    /\ \E m1 \in AttemptsOpts, m2 \in AttemptsOpts :
          rows = { WithQueueType(r, IF r.job_id = "j1" THEN "bull" ELSE "bullmq") :
                     r \in INSERT_JOB(INSERT_JOB({}, 1, "j1", "d1", m1), 2, "j2", "d2", m2) }
    /\ nextId = 3
    /\ tx = [t \in Txs |-> IdleTx]
    /\ broker = [j \in JobIds |-> AbsentJob]
    /\ inflight = {}
    /\ rcPc = "idle"
    /\ rcJobs = <<>>
    /\ rcDead = {}
    /\ rcCurrent = "none"
    /\ rcRemoved = FALSE
    /\ rcSubmits = 0

SpecTypes == InitTypes /\ [][NextHarvest]_vars

----------------------------------------------------------------------------
(* The broker: the job hashes in Redis, the workers, and a crash of Redis *)

Msg(ev, jobId, data, maxAttempts) ==
    [ev |-> ev, jobId |-> jobId, data |-> data, maxAttempts |-> maxAttempts]

Event(ev, jobId) == Msg(ev, jobId, "d1", 0)

\* a handler call is started: its database write is in flight
Emit(m) ==
    /\ Cardinality(inflight) < MaxInflight
    /\ m \notin inflight
    /\ inflight' = inflight \cup {m}
    /\ UNCHANGED <<dbVars, tx, ctlVars>>

\* queue.add of the broker: an existing job id is left as it is;
\* attempts = 0 stands for an absent opts.attempts (the broker then uses 1)
originalAdd(b, jobId, attempts) ==
    IF b[jobId].state # "absent" THEN b
    ELSE [b EXCEPT ![jobId] = [state |-> "waiting", attemptsMade |-> 0,
                               attempts |-> IF attempts = 0 THEN 1 ELSE attempts]]

\* the wrapped queue.add: originalAdd, then handleJobCreated
Submit(jobId, data, attempts) ==
    /\ broker' = originalAdd(broker, jobId, attempts)
    /\ Emit(Msg("created", jobId, data, attempts))
    /\ UNCHANGED <<rcVars, ctlVars>>

\* a worker takes the job: event 'active'
BrokerStart(jobId) ==
    /\ broker[jobId].state = "waiting"
    /\ broker' = [broker EXCEPT ![jobId].state = "active"]
    /\ Emit(Event("active", jobId))
    /\ UNCHANGED <<rcVars, ctlVars>>

\* the processor returns: event 'completed'
BrokerComplete(jobId) ==
    /\ broker[jobId].state = "active"
    /\ broker' = [broker EXCEPT ![jobId].state = "completed"]
    /\ Emit(Event("completed", jobId))
    /\ UNCHANGED <<rcVars, ctlVars>>

\* the processor throws: event 'failed'; the broker retries while attempts remain
BrokerFail(jobId) ==
    /\ broker[jobId].state = "active"
    /\ broker' = [broker EXCEPT ![jobId] =
                    [@ EXCEPT !.attemptsMade = @ + 1,
                              !.state = IF broker[jobId].attemptsMade + 1 < broker[jobId].attempts
                                        THEN "waiting" ELSE "failed"]]
    /\ Emit(Event("failed", jobId))
    /\ UNCHANGED <<rcVars, ctlVars>>

\* Redis restarts without its data
BrokerCrash ==
    /\ \E j \in JobIds : broker[j].state # "absent"
    /\ broker' = [j \in JobIds |-> AbsentJob]
    /\ UNCHANGED <<dbVars, tx, inflight, rcVars, ctlVars>>

----------------------------------------------------------------------------
(* BaseAdapter: the handlers execute their database write *)

\* maxAttempts || 3
handleJobCreatedMaxAttempts(maxAttempts) ==
    IF maxAttempts = 0 THEN DEFAULT_MAX_ATTEMPTS ELSE maxAttempts

Handled(m) ==
    /\ m \in inflight
    /\ inflight' = inflight \ {m}
    /\ UNCHANGED <<tx, broker, rcVars, ctlVars>>

handleJobCreated(m) ==
    /\ m.ev = "created"
    /\ createJob(m.jobId, m.data, handleJobCreatedMaxAttempts(m.maxAttempts))
    /\ Handled(m)

handleJobStarted(m) ==
    /\ m.ev = "active"
    /\ updateJobStatus(m.jobId, PROCESSING)
    /\ Handled(m)

handleJobCompleted(m) ==
    /\ m.ev = "completed"
    /\ updateJobStatus(m.jobId, COMPLETED)
    /\ Handled(m)

handleJobFailed(m) ==
    /\ m.ev = "failed"
    /\ updateJobError(m.jobId)
    /\ Handled(m)

\* catch (error): the write did not reach the database, the error is logged
handlerCatch(m) ==
    /\ Handled(m)
    /\ UNCHANGED dbVars

\* JobGuard.updateHeartbeat, called by the processor of an active job
JobGuard_updateHeartbeat(jobId) ==
    /\ broker[jobId].state = "active"
    /\ updateHeartbeat(jobId)
    /\ rows' # rows
    /\ UNCHANGED <<tx, queueVars, ctlVars>>

\* the cleanup timer of JobGuard.setupCleanup
JobGuard_cleanup ==
    /\ deleteOldJobs(RetentionDays)
    /\ rows' # rows
    /\ UNCHANGED <<tx, queueVars, ctlVars>>

----------------------------------------------------------------------------
(* Reconciler.run and the Bull / BullMQ reEnqueueJob, one step per await *)

\* getAndMarkStuckJobs with no other transaction open, then the loop is entered
Reconciler_run ==
    /\ rcPc = "idle"
    /\ \E S \in GET_STUCK_JOBS(rows, StuckThreshold, BatchSize, {}) :
       \E q \in OrderedBy(S) :
          LET stuckJobs == [i \in 1..Len(q) |-> mapRowToJobRecord(q[i])] IN
          /\ S # {}
          /\ rows' = MarkStuckJobs(rows, stuckJobs)
          /\ rcJobs' = ToReEnqueue(stuckJobs)
          /\ rcDead' = DeadJobIds(stuckJobs)
          /\ rcPc' = IF ToReEnqueue(stuckJobs) = <<>> THEN "idle" ELSE "verify"
    /\ UNCHANGED <<nextId, tx, broker, inflight, rcCurrent, rcRemoved, rcSubmits, ctlVars>>

\* reEnqueueJob returns or throws: the loop goes on with the next record
Reconciler_continue ==
    /\ rcJobs' = Tail(rcJobs)
    /\ rcPc' = IF Tail(rcJobs) = <<>> THEN "idle" ELSE "verify"
    /\ rcDead' = IF Tail(rcJobs) = <<>> THEN {} ELSE rcDead
    /\ rcCurrent' = "none"
    /\ rcRemoved' = FALSE
    /\ rcSubmits' = 0

\* const currentJob = await repository.getJob(...): rows[0] of the key's rows;
\* if (!currentJob || currentJob.status !== 'stuck') return
reEnqueueJob_verify ==
    /\ rcPc = "verify"
    /\ \E status \in { r.status : r \in GET_JOB(rows, Head(rcJobs).job_id) }
                     \cup (IF GET_JOB(rows, Head(rcJobs).job_id) = {}
                           THEN {"not found"} ELSE {}) :
          IF status = STUCK
          THEN /\ rcCurrent' = status
               /\ rcPc' = "remove"
               /\ UNCHANGED <<rcJobs, rcDead, rcRemoved, rcSubmits>>
          ELSE Reconciler_continue
    /\ UNCHANGED <<dbVars, tx, broker, inflight, ctlVars>>

\* a script that reports a removal whatever it finds
LuaRemoves_always(b, jobId) == TRUE

\* the Lua script: 1 iff the hash exists with neither finishedOn nor
\* failedReason; the broker writes failedReason on every failed attempt
LuaRemoves(b, jobId) ==
    b[jobId].state \in {"waiting", "active"} /\ b[jobId].attemptsMade = 0

\* the fallback after a script error: getJob, getState, remove
FallbackRemoves(b, jobId) == b[jobId].state \in {"waiting", "active"}

\* const removed = await this.atomicRemoveJob(jobRecord.job_id);
\* if (!removed) return
atomicRemoveJob ==
    /\ rcPc = "remove"
    /\ \E lua \in BOOLEAN :
          LET removed == IF lua THEN LuaRemoves(broker, Head(rcJobs).job_id)
                         ELSE FallbackRemoves(broker, Head(rcJobs).job_id) IN
          IF removed
          THEN /\ broker' = [broker EXCEPT ![Head(rcJobs).job_id] = AbsentJob]
               /\ rcRemoved' = TRUE
               /\ rcPc' = "add"
               /\ UNCHANGED <<rcJobs, rcDead, rcCurrent, rcSubmits>>
          ELSE /\ broker' = broker
               /\ Reconciler_continue
    /\ UNCHANGED <<dbVars, tx, inflight, ctlVars>>

\* await originalAdd(data, {jobId, attempts: jobRecord.attempts + 1})
reEnqueueJob_add ==
    /\ rcPc = "add"
    /\ broker' = originalAdd(broker, Head(rcJobs).job_id, Head(rcJobs).attempts + 1)
    /\ rcSubmits' = rcSubmits + 1
    /\ rcPc' = "update"
    /\ UNCHANGED <<dbVars, tx, inflight, rcJobs, rcDead, rcCurrent, rcRemoved, ctlVars>>

\* await repository.updateJobStatus(..., JobStatus.PENDING); a failing
\* statement throws and the loop of Reconciler.run catches it
reEnqueueJob_update ==
    /\ rcPc = "update"
    /\ updateJobStatus(Head(rcJobs).job_id, PENDING)
    /\ Reconciler_continue
    /\ UNCHANGED <<tx, broker, inflight, ctlVars>>

----------------------------------------------------------------------------
(* Spec: one coordinator on a Bull / BullMQ queue *)

Next ==
    \/ Tick
    \/ \E j \in KeyJobIds, d \in {"d1"}, a \in AttemptsOpts \cup {0} : Submit(j, d, a)
    \/ \E j \in KeyJobIds : BrokerStart(j)
    \/ \E j \in KeyJobIds : BrokerComplete(j)
    \/ \E j \in KeyJobIds : BrokerFail(j)
    \/ BrokerCrash
    \/ \E m \in inflight : handleJobCreated(m)
    \/ \E m \in inflight : handleJobStarted(m)
    \/ \E m \in inflight : handleJobCompleted(m)
    \/ \E m \in inflight : handleJobFailed(m)
    \/ \E m \in inflight : handlerCatch(m)
    \/ \E j \in KeyJobIds : JobGuard_updateHeartbeat(j)
    \/ JobGuard_cleanup
    \/ Reconciler_run
    \/ reEnqueueJob_verify
    \/ atomicRemoveJob
    \/ reEnqueueJob_add
    \/ reEnqueueJob_update

Spec == Init /\ [][Next]_vars

----------------------------------------------------------------------------
(* LiveSpec: the coordinator with the database reachable (no write of a   *)
(* handler is lost), the clock advancing, the handlers' writes completing *)
(* and the reconciler's timer and awaits always resuming                  *)

NextLive ==
    \/ Tick
    \/ \E j \in KeyJobIds, d \in {"d1"}, a \in AttemptsOpts \cup {0} : Submit(j, d, a)
    \/ \E j \in KeyJobIds : BrokerStart(j)
    \/ \E j \in KeyJobIds : BrokerComplete(j)
    \/ \E j \in KeyJobIds : BrokerFail(j)
    \/ BrokerCrash
    \/ \E m \in inflight : handleJobCreated(m)
    \/ \E m \in inflight : handleJobStarted(m)
    \/ \E m \in inflight : handleJobCompleted(m)
    \/ \E m \in inflight : handleJobFailed(m)
    \/ \E j \in KeyJobIds : JobGuard_updateHeartbeat(j)
    \/ JobGuard_cleanup
    \/ Reconciler_run
    \/ reEnqueueJob_verify
    \/ atomicRemoveJob
    \/ reEnqueueJob_add
    \/ reEnqueueJob_update

Fairness ==
    /\ WF_vars(Tick)
    /\ WF_vars(\E m \in inflight : handleJobCreated(m))
    /\ WF_vars(\E m \in inflight : handleJobStarted(m))
    /\ WF_vars(\E m \in inflight : handleJobCompleted(m))
    /\ WF_vars(\E m \in inflight : handleJobFailed(m))
    /\ WF_vars(Reconciler_run)
    /\ WF_vars(reEnqueueJob_verify)
    /\ WF_vars(atomicRemoveJob)
    /\ WF_vars(reEnqueueJob_add)
    /\ WF_vars(reEnqueueJob_update)

LiveSpec == Init /\ [][NextLive]_vars /\ Fairness

\* the coordinator with the cleanup timer firing for ever
FairnessRetention == Fairness /\ WF_vars(JobGuard_cleanup)

LiveRetention == Init /\ [][NextLive]_vars /\ FairnessRetention

\* Jobs whose every execution stalls: each job id is submitted once, a
\* worker takes it ('active') and then neither finishes, fails nor sends a
\* heartbeat.
Stall_submit(jobId, attempts) ==
    /\ GET_JOB(rows, jobId) = {}
    /\ broker[jobId].state = "absent"
    /\ Submit(jobId, "d1", attempts)

NextStall ==
    \/ Tick
    \/ \E j \in JobIds, a \in AttemptsOpts \cup {0} : Stall_submit(j, a)
    \/ \E j \in JobIds : BrokerStart(j)
    \/ \E m \in inflight : handleJobCreated(m)
    \/ \E m \in inflight : handleJobStarted(m)
    \/ Reconciler_run
    \/ reEnqueueJob_verify
    \/ atomicRemoveJob
    \/ reEnqueueJob_add
    \/ reEnqueueJob_update

FairnessStall ==
    /\ WF_vars(Tick)
    /\ WF_vars(\E j \in JobIds : BrokerStart(j))
    /\ WF_vars(\E m \in inflight : handleJobCreated(m))
    /\ WF_vars(\E m \in inflight : handleJobStarted(m))
    /\ WF_vars(Reconciler_run)
    /\ WF_vars(reEnqueueJob_verify)
    /\ WF_vars(atomicRemoveJob)
    /\ WF_vars(reEnqueueJob_add)
    /\ WF_vars(reEnqueueJob_update)

LiveStall == Init /\ [][NextStall]_vars /\ FairnessStall

\* The lifecycle listeners call their handler with `void`: the handler of
\* an event is not awaited before the next event is delivered, and each
\* handler's statement runs on whichever pool connection is free.  Up to
\* MaxPending handler writes are in flight and execute in any order.
EmitConcurrent(m) ==
    /\ Cardinality(inflight) < MaxPending
    /\ m \notin inflight
    /\ inflight' = inflight \cup {m}
    /\ UNCHANGED <<dbVars, tx, ctlVars>>

Events_active(jobId) ==
    /\ broker[jobId].state = "waiting"
    /\ broker' = [broker EXCEPT ![jobId].state = "active"]
    /\ EmitConcurrent(Event("active", jobId))
    /\ UNCHANGED <<rcVars, ctlVars>>

Events_completed(jobId) ==
    /\ broker[jobId].state = "active"
    /\ broker' = [broker EXCEPT ![jobId].state = "completed"]
    /\ EmitConcurrent(Event("completed", jobId))
    /\ UNCHANGED <<rcVars, ctlVars>>

Events_failed(jobId) ==
    /\ broker[jobId].state = "active"
    /\ broker' = [broker EXCEPT ![jobId] =
                    [@ EXCEPT !.attemptsMade = @ + 1,
                              !.state = IF broker[jobId].attemptsMade + 1 < broker[jobId].attempts
                                        THEN "waiting" ELSE "failed"]]
    /\ EmitConcurrent(Event("failed", jobId))
    /\ UNCHANGED <<rcVars, ctlVars>>

NextEvents ==
    \/ \E j \in JobIds, a \in AttemptsOpts \cup {0} : Stall_submit(j, a)
    \/ \E j \in JobIds : Events_active(j)
    \/ \E j \in JobIds : Events_completed(j)
    \/ \E j \in JobIds : Events_failed(j)
    \/ \E m \in inflight : handleJobCreated(m)
    \/ \E m \in inflight : handleJobStarted(m)
    \/ \E m \in inflight : handleJobCompleted(m)
    \/ \E m \in inflight : handleJobFailed(m)

SpecEvents == Init /\ [][NextEvents]_vars

----------------------------------------------------------------------------
(* CircuitBreaker: execute, one step at the call and one when the awaited *)
(* operation settles; callHistory (metrics only) is not modelled          *)

\* the comparison with >= in place of >: a call is admitted at the timeout
execute_rejects_atTimeout == state = OPEN /\ ~ (lastFailureTime >= CbTimeout)

\* state === OPEN and not (Date.now() - lastFailureTime > timeout):
\* throw new CircuitBreakerOpenError
execute_rejects == state = OPEN /\ ~ (lastFailureTime > CbTimeout)

\* the state in which fn() is called: OPEN past the timeout becomes HALF_OPEN
execute_admits == IF state = OPEN THEN HALF_OPEN ELSE state

\* a success that leaves the state as it is
onSuccessState_keeps(st) == st

\* onSuccess: if (this.state === HALF_OPEN) this.state = CLOSED
onSuccessState(st) == IF st = HALF_OPEN THEN CLOSED ELSE st

\* onFailure: if (this.failureCount >= this.threshold) this.state = OPEN
onFailureState(st, count) == IF count >= CbThreshold THEN OPEN ELSE st

onSuccess ==
    /\ failureCount' = 0
    /\ state' = onSuccessState(state)
    /\ lastResult' = "success"
    /\ UNCHANGED lastFailureTime

onFailure ==
    /\ failureCount < MaxFailureCount
    /\ failureCount' = failureCount + 1
    /\ lastFailureTime' = 0
    /\ state' = onFailureState(state, failureCount + 1)
    /\ lastResult' = "failure"

\* execute up to the await of fn(): refused, or admitted and in flight
execute_call(c) ==
    /\ calls[c] = "none"
    /\ IF execute_rejects
       THEN /\ lastResult' = "rejected"
            /\ UNCHANGED <<state, failureCount, lastFailureTime, calls>>
       ELSE /\ state' = execute_admits
            /\ calls' = [calls EXCEPT ![c] = execute_admits]
            /\ lastResult' = "admitted"
            /\ UNCHANGED <<failureCount, lastFailureTime>>

\* fn() resolved: onSuccess
execute_resolved(c) ==
    /\ calls[c] # "none"
    /\ calls' = [calls EXCEPT ![c] = "none"]
    /\ onSuccess

\* fn() rejected: onFailure
execute_rejected(c) ==
    /\ calls[c] # "none"
    /\ calls' = [calls EXCEPT ![c] = "none"]
    /\ onFailure

\* one tick of Date.now()
Clock ==
    /\ lastFailureTime' = Age(lastFailureTime, CbTimeout)
    /\ lastFailureTime' # lastFailureTime
    /\ UNCHANGED <<state, failureCount, calls, lastResult>>

(* SpecBreaker: one CircuitBreaker and callers whose operations succeed or *)
(* fail at will                                                           *)

Breaker_call(c) ==
    execute_call(c) /\ UNCHANGED <<dbVars, tx, queueVars, extVars, rnVars, jgVars>>

Breaker_resolved(c) ==
    execute_resolved(c) /\ UNCHANGED <<dbVars, tx, queueVars, extVars, rnVars, jgVars>>

Breaker_rejected(c) ==
    execute_rejected(c) /\ UNCHANGED <<dbVars, tx, queueVars, extVars, rnVars, jgVars>>

Breaker_clock ==
    Clock /\ UNCHANGED <<dbVars, tx, queueVars, extVars, rnVars, jgVars>>

NextBreaker ==
    \/ \E c \in Callers : Breaker_call(c)
    \/ \E c \in Callers : Breaker_resolved(c)
    \/ \E c \in Callers : Breaker_rejected(c)
    \/ Breaker_clock

SpecBreaker == Init /\ [][NextBreaker]_vars

----------------------------------------------------------------------------
(* Reconciler: timer, run, forceRun, stop; JobGuard: cleanup timer and    *)
(* shutdown.  Every repository call goes through CircuitBreaker.execute   *)
(* and fails while PostgreSQL is unreachable.                             *)

\* run without the test of isRunning
run_returns_noIsRunning == isStopped

\* run without the test of isStopped
run_returns_noIsStopped == isRunning

\* if (this.isRunning || this.isStopped) return
run_returns == isRunning \/ isStopped

\* run that is never paused
run_paused_never(count) == FALSE

\* if (this.consecutiveFailures >= this.MAX_CONSECUTIVE_FAILURES)
run_paused(count) == count >= MAX_CONSECUTIVE_FAILURES

\* scheduleNext: if (this.isStopped) return; this.intervalHandle = setTimeout(...)
scheduleNext(pending, handle) ==
    /\ timers' = IF isStopped THEN pending ELSE pending + 1
    /\ intervalHandle' = IF isStopped THEN handle ELSE TRUE

\* the first invocation record that is free
FreeCycle == IF cycle["run1"].pc = "none" THEN "run1" ELSE "run2"

\* run up to its first await, entered with the counter at count and the
\* timers (pending, handle): return, pause and reschedule, or call
\* getAndMarkStuckJobs, which the breaker refuses at once (catch, finally)
\* or admits (the cycle awaits the harvest)
run(count, pending, handle) ==
    IF run_returns
    THEN /\ consecutiveFailures' = count
         /\ timers' = pending
         /\ intervalHandle' = handle
         /\ UNCHANGED <<isRunning, cycle, cbVars>>
    ELSE IF run_paused(count)
    THEN /\ consecutiveFailures' = count
         /\ scheduleNext(pending, handle)
         /\ UNCHANGED <<isRunning, cycle, cbVars>>
    ELSE /\ cycle[FreeCycle].pc = "none"
         /\ execute_call(FreeCycle)
         /\ IF execute_rejects
            THEN /\ consecutiveFailures' = count + 1
                 /\ scheduleNext(pending, handle)
                 /\ UNCHANGED <<isRunning, cycle>>
            ELSE /\ consecutiveFailures' = count
                 /\ isRunning' = TRUE
                 /\ cycle' = [cycle EXCEPT ![FreeCycle] = [pc |-> "harvest", jobs |-> <<>>]]
                 /\ timers' = pending
                 /\ intervalHandle' = handle

\* finally: this.isRunning = false; this.scheduleNext()
run_finally(c) ==
    /\ cycle' = [cycle EXCEPT ![c] = IdleCycle]
    /\ isRunning' = FALSE
    /\ scheduleNext(timers, intervalHandle)

\* a setTimeout callback fires: void this.run()
Reconciler_timer ==
    /\ timers > 0
    /\ \E ofHandle \in BOOLEAN :
          /\ ofHandle => intervalHandle
          /\ ~ ofHandle => timers > (IF intervalHandle THEN 1 ELSE 0)
          /\ run(consecutiveFailures, timers - 1, intervalHandle /\ ~ ofHandle)
    /\ UNCHANGED <<dbVars, tx, queueVars, extVars, isStopped, jgVars>>

\* forceRun: this.consecutiveFailures = 0; await this.run()
Reconciler_forceRun ==
    /\ timers < MaxTimers \/ run_returns
    /\ run(0, timers, intervalHandle)
    /\ UNCHANGED <<dbVars, tx, queueVars, extVars, isStopped, jgVars>>

\* stop: clearTimeout(this.intervalHandle); this.isStopped = true
stop ==
    /\ timers' = IF intervalHandle THEN timers - 1 ELSE timers
    /\ intervalHandle' = FALSE
    /\ isStopped' = TRUE

Reconciler_stop ==
    /\ ~ isStopped
    /\ stop
    /\ UNCHANGED <<dbVars, tx, queueVars, extVars, cbVars, isRunning, consecutiveFailures, cycle, jgVars>>

\* the awaited getAndMarkStuckJobs settles: the rows are marked and the
\* loop is entered (or the cycle ends), or the call failed (catch, finally)
run_harvested(c) ==
    /\ cycle[c].pc = "harvest"
    /\ \/ /\ dbUp
          /\ execute_resolved(c)
          /\ \E S \in GET_STUCK_JOBS(rows, StuckThreshold, BatchSize, {}) :
             \E q \in OrderedBy(S) :
                LET stuckJobs == [i \in 1..Len(q) |-> mapRowToJobRecord(q[i])] IN
                /\ rows' = MarkStuckJobs(rows, stuckJobs)
                /\ IF ToReEnqueue(stuckJobs) = <<>>
                   THEN /\ consecutiveFailures' = 0
                        /\ run_finally(c)
                   ELSE /\ cycle' = [cycle EXCEPT ![c] =
                                        [pc |-> "loop", jobs |-> ToReEnqueue(stuckJobs)]]
                        /\ UNCHANGED <<isRunning, consecutiveFailures, timers, intervalHandle>>
       \/ /\ ~ dbUp
          /\ execute_rejected(c)
          /\ consecutiveFailures' = consecutiveFailures + 1
          /\ run_finally(c)
          /\ UNCHANGED rows
    /\ UNCHANGED <<nextId, tx, queueVars, extVars, isStopped, jgVars>>

\* a repository call that settles before anything else happens
execute_succeeds ==
    /\ ~ execute_rejects /\ dbUp
    /\ failureCount' = 0
    /\ state' = onSuccessState(execute_admits)
    /\ lastResult' = "success"
    /\ UNCHANGED <<lastFailureTime, calls>>

execute_fails ==
    /\ ~ execute_rejects /\ ~ dbUp
    /\ failureCount < MaxFailureCount
    /\ failureCount' = failureCount + 1
    /\ lastFailureTime' = 0
    /\ state' = onFailureState(execute_admits, failureCount + 1)
    /\ lastResult' = "failure"
    /\ UNCHANGED calls

execute_refuses ==
    /\ execute_rejects
    /\ lastResult' = "rejected"
    /\ UNCHANGED <<state, failureCount, lastFailureTime, calls>>

\* one pass of the loop: reEnqueueJob(job) throws (its getJob is refused or
\* fails), skips the job, or ends with updateJobStatus(PENDING); after the
\* last job the counter is reset and the cycle ends
run_reEnqueue(c) ==
    /\ cycle[c].pc = "loop"
    /\ \/ (execute_refuses \/ execute_fails) /\ UNCHANGED rows
       \/ execute_succeeds /\ UNCHANGED rows
       \/ /\ execute_succeeds
          /\ rows' = Statement(rows, UPDATE_JOB_STATUS(rows, PENDING, Head(cycle[c].jobs).job_id))
    /\ IF Len(cycle[c].jobs) = 1
       THEN /\ consecutiveFailures' = 0
            /\ run_finally(c)
       ELSE /\ cycle' = [cycle EXCEPT ![c].jobs = Tail(@)]
            /\ UNCHANGED <<isRunning, consecutiveFailures, timers, intervalHandle>>
    /\ UNCHANGED <<nextId, tx, queueVars, extVars, isStopped, jgVars>>

\* handleJobStarted for a pending job; its write is lost while the
\* database is unreachable or the breaker refuses it
Control_handleJobStarted(jobId) ==
    /\ \E r \in rows : r.job_id = jobId /\ r.status = PENDING
    /\ \/ execute_succeeds /\ rows' = Statement(rows, UPDATE_JOB_STATUS(rows, PROCESSING, jobId))
       \/ execute_fails /\ UNCHANGED rows
    /\ UNCHANGED <<nextId, tx, queueVars, extVars, rnVars, jgVars>>

\* the setInterval callback of setupCleanup up to await deleteOldJobs
setupCleanup_timer ==
    /\ cleanupInterval
    /\ cleanupFailures < MAX_CONSECUTIVE_FAILURES
    /\ execute_call("cleanup")
    /\ cleanupFailures' = IF execute_rejects THEN cleanupFailures + 1 ELSE cleanupFailures
    /\ UNCHANGED <<dbVars, tx, queueVars, extVars, rnVars, dbUp, cleanupInterval, initialized>>

\* the awaited deleteOldJobs settles
setupCleanup_settled ==
    /\ calls["cleanup"] # "none"
    /\ \/ /\ dbUp
          /\ execute_resolved("cleanup")
          /\ rows' = DELETE_OLD_JOBS(rows, RetentionDays)
          /\ cleanupFailures' = 0
       \/ /\ ~ dbUp
          /\ execute_rejected("cleanup")
          /\ cleanupFailures' = cleanupFailures + 1
          /\ UNCHANGED rows
    /\ UNCHANGED <<nextId, tx, queueVars, extVars, rnVars, dbUp, cleanupInterval, initialized>>

\* shutdown up to its awaits: reconciler.stop(); clearInterval(cleanupInterval)
JobGuard_shutdown ==
    /\ initialized
    /\ cleanupInterval
    /\ stop
    /\ cleanupInterval' = FALSE
    /\ UNCHANGED <<dbVars, tx, queueVars, extVars, cbVars, isRunning, consecutiveFailures, cycle,
                   dbUp, cleanupFailures, initialized>>

\* shutdown returns: this.initialized = false
JobGuard_shutdownReturns ==
    /\ initialized
    /\ ~ cleanupInterval
    /\ initialized' = FALSE
    /\ UNCHANGED <<dbVars, tx, queueVars, extVars, cbVars, rnVars, dbUp, cleanupInterval, cleanupFailures>>

\* PostgreSQL becomes unreachable / reachable again
DbDown ==
    /\ dbUp
    /\ dbUp' = FALSE
    /\ UNCHANGED <<dbVars, tx, queueVars, extVars, cbVars, rnVars, cleanupInterval, cleanupFailures, initialized>>

DbUp ==
    /\ ~ dbUp
    /\ dbUp' = TRUE
    /\ UNCHANGED <<dbVars, tx, queueVars, extVars, cbVars, rnVars, cleanupInterval, cleanupFailures, initialized>>

\* one tick of wall-clock time, for the rows and for the breaker
Control_tick ==
    /\ rows' = { AgeRow(r) : r \in rows }
    /\ lastFailureTime' = Age(lastFailureTime, CbTimeout)
    /\ <<rows, lastFailureTime>>' # <<rows, lastFailureTime>>
    /\ UNCHANGED <<nextId, tx, queueVars, extVars, state, failureCount, calls, lastResult, rnVars, jgVars>>

(* SpecControl: the timers of one coordinator, with one job being processed *)

InitControlSpec ==
    /\ InitControl
    /\ InitAdapter
    /\ InitShutdown
    /\ InitLoop
    /\ InitConfig
    /\ rows = UPDATE_JOB_STATUS(INSERT_JOB({}, 1, "j1", "d1", DEFAULT_MAX_ATTEMPTS),
                                PROCESSING, "j1")
    /\ nextId = 2
    /\ tx = [t \in Txs |-> IdleTx]
    /\ broker = [j \in JobIds |-> AbsentJob]
    /\ inflight = {}
    /\ rcPc = "idle"
    /\ rcJobs = <<>>
    /\ rcDead = {}
    /\ rcCurrent = "none"
    /\ rcRemoved = FALSE
    /\ rcSubmits = 0

NextControl ==
    \/ Control_tick
    \/ DbDown
    \/ DbUp
    \/ Reconciler_timer
    \/ Reconciler_forceRun
    \/ Reconciler_stop
    \/ \E c \in Cycles : run_harvested(c)
    \/ \E c \in Cycles : run_reEnqueue(c)
    \/ \E j \in KeyJobIds : Control_handleJobStarted(j)
    \/ setupCleanup_timer
    \/ setupCleanup_settled
    \/ JobGuard_shutdown
    \/ JobGuard_shutdownReturns

SpecControl == InitControlSpec /\ [][NextControl]_vars

(* LiveControl: the coordinator left to itself (no forceRun, no stop, no *)
(* shutdown); timers fire, awaited calls settle, the clock advances      *)

NextLiveControl ==
    \/ Control_tick
    \/ DbDown
    \/ DbUp
    \/ Reconciler_timer
    \/ \E c \in Cycles : run_harvested(c)
    \/ \E c \in Cycles : run_reEnqueue(c)
    \/ \E j \in KeyJobIds : Control_handleJobStarted(j)
    \/ setupCleanup_timer
    \/ setupCleanup_settled

FairnessControl ==
    /\ WF_vars(Control_tick)
    /\ WF_vars(Reconciler_timer)
    /\ WF_vars(\E c \in Cycles : run_harvested(c))
    /\ WF_vars(\E c \in Cycles : run_reEnqueue(c))
    /\ WF_vars(setupCleanup_settled)

LiveControl == InitControlSpec /\ [][NextLiveControl]_vars /\ FairnessControl

----------------------------------------------------------------------------
(* Adapters: the wrapped submit with its validation, the lifecycle      *)
(* listeners, the heartbeat and dispose, for the three adapter variants *)

NameLengths == {255, 256}           \* jobName.length; Bee-Queue jobs have no name
ByteLengths == {1048576, 1048577}   \* Buffer.byteLength(JSON.stringify(data))

\* validateJobData: the error it throws, "none" when it returns.
\* jobName && jobName.length > MAX_NAME_LENGTH is false for an absent name.
validateJobData(nameLength, byteLength, serializable) ==
    IF nameLength > MAX_NAME_LENGTH THEN "name exceeds"
    ELSE IF ~ serializable THEN "cannot be serialized"
    ELSE IF byteLength > MAX_DATA_SIZE THEN "data exceeds"
    ELSE "none"

\* a catch block that throws the error again
handler_catch_rethrows(error) == IF error = "none" THEN "resolved" ELSE "rejected"

\* try { ... } catch (error) { this.logger.error(...) } of handleJobCreated,
\* handleJobStarted, handleJobCompleted, handleJobFailed and updateHeartbeat:
\* how the handler's promise settles when its body threw error
handler_catch(error) == "resolved"

\* A repository method called by a handler and settled in one step:
\* circuitBreaker.execute refuses it, pool.query rejects (database unreachable,
\* pool exhausted, statement refused by the unique index) or the statement
\* is applied; error is what the method throws.
repositoryCall(after, error) ==
    \/ /\ execute_refuses
       /\ error = "CircuitBreakerOpenError"
       /\ UNCHANGED rows
    \/ /\ execute_fails
       /\ error = "QueryError"
       /\ UNCHANGED rows
    \/ /\ ~ execute_rejects /\ dbUp /\ StatementFails(after)
       /\ failureCount < MaxFailureCount
       /\ failureCount' = failureCount + 1
       /\ lastFailureTime' = 0
       /\ state' = onFailureState(execute_admits, failureCount + 1)
       /\ lastResult' = "failure"
       /\ error = "QueryError"
       /\ UNCHANGED <<rows, calls>>
    \/ /\ execute_succeeds
       /\ ~ StatementFails(after)
       /\ error = "none"
       /\ rows' = after

Errors == {"none", "QueryError", "CircuitBreakerOpenError"}

\* The producer calls the queue's submit operation. The wrapper awaits
\* originalAdd (the broker enqueues the job) and goes on to handleJobCreated;
\* the original operation enqueues and returns the job.
Adapter_add(nameLength, byteLength, serializable) ==
    /\ submit.pc = "idle"
    /\ queueType = "bee" => nameLength = 0
    /\ queueType # "bee" => nameLength \in NameLengths
    /\ submit' = [pc |-> IF submitOp = "wrapped" THEN "created" ELSE "idle",
                  nameLength |-> nameLength, byteLength |-> byteLength,
                  serializable |-> serializable, via |-> submitOp, adds |-> 1,
                  result |-> IF submitOp = "wrapped" THEN "none" ELSE "job",
                  wrote |-> FALSE]
    /\ UNCHANGED <<dbVars, tx, queueVars, cbVars, rnVars, jgVars, sdVars, cfVars, rlVars,
                   queueType, submitOp, hasOriginalAdd, listeners, isDisposed, escaped>>

\* the wrapper's return: the job when handleJobCreated resolved, else its error
Adapter_addReturns(error, didWrite) ==
    /\ submit' = [submit EXCEPT !.pc = "idle",
                                !.result = IF handler_catch(error) = "resolved"
                                           THEN "job" ELSE "error",
                                !.wrote = didWrite]
    /\ escaped' = (escaped \/ handler_catch(error) = "rejected")

\* handleJobCreated awaited by the wrapper: validateJobData, then createJob,
\* both inside the try; then the wrapper returns
Adapter_handleJobCreated(jobId) ==
    /\ submit.pc = "created"
    /\ LET invalid == validateJobData(submit.nameLength, submit.byteLength,
                                      submit.serializable)
       IN IF invalid # "none"
          THEN /\ Adapter_addReturns(invalid, FALSE)
               /\ UNCHANGED <<dbVars, cbVars>>
          ELSE /\ InsertsRow(rows, jobId) => nextId <= MaxRows
               /\ \E error \in Errors :
                    /\ repositoryCall(INSERT_JOB(rows, nextId, jobId, "d1",
                                                 DEFAULT_MAX_ATTEMPTS), error)
                    /\ Adapter_addReturns(error, error = "none")
               /\ nextId' = IF rows' # rows /\ InsertsRow(rows, jobId)
                            THEN nextId + 1 ELSE nextId
    /\ UNCHANGED <<tx, queueVars, rnVars, jgVars, sdVars, cfVars, rlVars,
                   queueType, submitOp, hasOriginalAdd, listeners, isDisposed>>

\* the statement of the handler attached to event ev
HandlerStatement(ev, jobId) ==
    CASE ev = "active" -> UPDATE_JOB_STATUS(rows, PROCESSING, jobId)
      [] ev = "completed" -> UPDATE_JOB_STATUS(rows, COMPLETED, jobId)
      [] ev = "failed" -> UPDATE_JOB_ERROR(rows, jobId)

\* The broker emits ev for a job: the attached listener calls its handler
\* (void this.handleJob...), whose promise is nobody's to await.
Adapter_event(ev, jobId) ==
    /\ ev \in listeners
    /\ ev = "failed" => \A r \in GET_JOB(rows, jobId) : r.attempts < MaxAttemptsCount
    /\ \E error \in Errors :
         /\ repositoryCall(HandlerStatement(ev, jobId), error)
         /\ escaped' = (escaped \/ handler_catch(error) = "rejected")
    /\ UNCHANGED <<nextId, tx, queueVars, rnVars, jgVars, sdVars, cfVars, rlVars,
                   queueType, submitOp, hasOriginalAdd, listeners, isDisposed, submit>>

\* adapter.updateHeartbeat(jobId), awaited by JobGuard.updateHeartbeat
Adapter_updateHeartbeat(jobId) ==
    /\ \E error \in Errors :
         /\ repositoryCall(UPDATE_HEARTBEAT(rows, jobId), error)
         /\ escaped' = (escaped \/ handler_catch(error) = "rejected")
    /\ UNCHANGED <<nextId, tx, queueVars, rnVars, jgVars, sdVars, cfVars, rlVars,
                   queueType, submitOp, hasOriginalAdd, listeners, isDisposed, submit>>

\* dispose of BullAdapter, BullMQAdapter (with queueEvents.close()) and
\* BeeAdapter: removeListener for every stored handler, then BaseAdapter.dispose:
\* if (isDisposed) return; if (originalAdd && 'add' in queue) queue.add = originalAdd
dispose ==
    /\ listeners' = {}
    /\ submitOp' = IF ~ isDisposed /\ hasOriginalAdd THEN "original" ELSE submitOp
    /\ isDisposed' = TRUE
    /\ UNCHANGED <<queueType, hasOriginalAdd, submit, escaped>>

Adapter_dispose ==
    /\ dispose
    /\ UNCHANGED <<dbVars, tx, queueVars, cbVars, rnVars, jgVars, sdVars, cfVars, rlVars>>

(* SpecAdapter: one adapter of any variant after initialize(), a producer, *)
(* the broker's events for one job id, the heartbeat and dispose, with the *)
(* database going away and coming back                                    *)

\* wrapAddMethod: Bull and BullMQ store originalAdd and replace queue.add;
\* Bee replaces queue.createJob and stores nothing. attachEventListeners.
InitAdapterSpec ==
    /\ InitControl
    /\ InitShutdown
    /\ InitLoop
    /\ InitConfig
    /\ queueType \in QueueTypes
    /\ submitOp = "wrapped"
    /\ hasOriginalAdd = (queueType # "bee")
    /\ listeners = Events
    /\ isDisposed = FALSE
    /\ submit = IdleSubmit
    /\ escaped = FALSE
    /\ rows = {}
    /\ nextId = 1
    /\ tx = [t \in Txs |-> IdleTx]
    /\ broker = [j \in JobIds |-> AbsentJob]
    /\ inflight = {}
    /\ rcPc = "idle"
    /\ rcJobs = <<>>
    /\ rcDead = {}
    /\ rcCurrent = "none"
    /\ rcRemoved = FALSE
    /\ rcSubmits = 0

NextAdapter ==
    \/ \E n \in NameLengths \cup {0}, b \in ByteLengths, s \in BOOLEAN : Adapter_add(n, b, s)
    \/ \E j \in KeyJobIds : Adapter_handleJobCreated(j)
    \/ \E ev \in Events, j \in KeyJobIds : Adapter_event(ev, j)
    \/ \E j \in KeyJobIds : Adapter_updateHeartbeat(j)
    \/ Adapter_dispose
    \/ DbDown
    \/ DbUp
    \/ Breaker_clock

SpecAdapter == InitAdapterSpec /\ [][NextAdapter]_vars

----------------------------------------------------------------------------
(* JobGuard.create with a reconciliation configuration, and the adaptive *)
(* scheduler of the reconciler it constructs                             *)

IntervalOpts == {NULL, 1000, 4000, 8000}        \* reconciliation.intervalMs
ThresholdOpts == {NULL, 0, 59999, 60000}        \* reconciliation.stuckThresholdMs
SuccessRates == {79, 80, 100}                   \* successRate, in percent
FoundCounts == {0, 1}                           \* foundStuckJobs

Configs ==
    [enabled : BOOLEAN, intervalMs : IntervalOpts, stuckThresholdMs : ThresholdOpts,
     adaptiveScheduling : BOOLEAN]

\* option || default: an absent option and 0 both give the default
OrDefault(option, default) == IF option = NULL \/ option = 0 THEN default ELSE option

\* the floor one below MIN_STUCK_THRESHOLD
ThresholdRejected_offByOne(stuckThresholdMs) == stuckThresholdMs < MIN_STUCK_THRESHOLD - 1

\* if (stuckThresholdMs < MIN_STUCK_THRESHOLD) throw new ReconciliationError
ThresholdRejected(stuckThresholdMs) == stuckThresholdMs < MIN_STUCK_THRESHOLD

MathMax(a, b) == IF a >= b THEN a ELSE b
MathMin(a, b) == IF a <= b THEN a ELSE b

\* Math.max(5000, baseIntervalMs / 4) and baseIntervalMs * 4, in 1/Scale ms
minIntervalMs == MathMax(5000 * Scale, (rcConfig.intervalMs * Scale) \div 4)
maxIntervalMs == rcConfig.intervalMs * Scale * 4

\* new Reconciler(...): defaults, the threshold floor, new AdaptiveScheduler
Reconciler_constructor ==
    LET stuckThresholdMs == OrDefault(config.stuckThresholdMs, 300000)
        intervalMs == OrDefault(config.intervalMs, 30000)
    IN IF ThresholdRejected(stuckThresholdMs)
       THEN /\ created' = "ReconciliationError"
            /\ UNCHANGED <<rcConfig, currentIntervalMs, consecutiveEmptyRuns>>
       ELSE /\ created' = "ready"
            /\ rcConfig' = [enabled |-> TRUE, intervalMs |-> intervalMs,
                            stuckThresholdMs |-> stuckThresholdMs,
                            adaptiveScheduling |-> config.adaptiveScheduling]
            /\ currentIntervalMs' = intervalMs * Scale
            /\ consecutiveEmptyRuns' = 0

\* JobGuard.create: testConnection, adapter.initialize, the reconciler unless
\* reconciliation.enabled === false
BaseAdapter_initialize ==
    /\ submitOp' = "wrapped"
    /\ hasOriginalAdd' = (queueType # "bee")
    /\ listeners' = Events

\* JobGuard.create: the constructor, then initialize(): testConnection,
\* adapter.initialize(), new Reconciler and start(), setupCleanup; an error
\* of a step is logged and rethrown, what the earlier steps did stays
JobGuard_create ==
    /\ created = "none"
    /\ IF ~ dbUp
       THEN /\ created' = "PostgresConnectionError"
            /\ UNCHANGED <<rcConfig, currentIntervalMs, consecutiveEmptyRuns,
                           submitOp, hasOriginalAdd, listeners,
                           timers, intervalHandle, cleanupInterval, initialized>>
       ELSE /\ BaseAdapter_initialize
            /\ IF config.enabled
               THEN Reconciler_constructor
               ELSE /\ created' = "ready"
                    /\ UNCHANGED <<rcConfig, currentIntervalMs, consecutiveEmptyRuns>>
            /\ timers' = IF created' = "ready" /\ config.enabled THEN 1 ELSE timers
            /\ intervalHandle' = (created' = "ready" /\ config.enabled)
            /\ cleanupInterval' = (created' = "ready")
            /\ initialized' = (created' = "ready")
    /\ UNCHANGED <<dbVars, tx, queueVars, cbVars, isRunning, isStopped,
                   consecutiveFailures, cycle, dbUp, cleanupFailures,
                   queueType, isDisposed, submit, escaped, sdVars, rlVars, config, records>>

\* AdaptiveScheduler.recordResult(foundStuckJobs, successRate)
recordResult(foundStuckJobs, successRate) ==
    IF ~ rcConfig.adaptiveScheduling
    THEN UNCHANGED <<currentIntervalMs, consecutiveEmptyRuns>>
    ELSE IF successRate < 80
    THEN /\ currentIntervalMs' = MathMin((currentIntervalMs * 3) \div 2, maxIntervalMs)
         /\ UNCHANGED consecutiveEmptyRuns
    ELSE IF foundStuckJobs = 0
    THEN /\ consecutiveEmptyRuns' = consecutiveEmptyRuns + 1
         /\ currentIntervalMs' =
                IF consecutiveEmptyRuns + 1 >= 3
                THEN MathMin((currentIntervalMs * 3) \div 2, maxIntervalMs)
                ELSE currentIntervalMs
    ELSE /\ consecutiveEmptyRuns' = 0
         /\ currentIntervalMs' = MathMax((currentIntervalMs * 4) \div 5, minIntervalMs)

\* the end of a reconciliation cycle reports its result to the scheduler
Scheduler_recordResult(foundStuckJobs, successRate) ==
    /\ created = "ready"
    /\ rcConfig # NoReconciler
    /\ records < MaxRecords
    /\ records' = records + 1
    /\ recordResult(foundStuckJobs, successRate)
    /\ UNCHANGED <<dbVars, tx, queueVars, cbVars, rnVars, jgVars, adVars, sdVars, rlVars,
                   config, created, rcConfig>>

(* SpecConfig: JobGuard.create under every reconciliation configuration, *)
(* then the results of up to MaxRecords cycles                           *)

InitConfigSpec ==
    /\ state = CLOSED
    /\ failureCount = 0
    /\ lastFailureTime = CbTimeout + 1
    /\ calls = [c \in Callers |-> "none"]
    /\ lastResult = "none"
    /\ isRunning = FALSE
    /\ isStopped = FALSE
    /\ consecutiveFailures = 0
    /\ timers = 0
    /\ intervalHandle = FALSE
    /\ cycle = [c \in Cycles |-> IdleCycle]
    /\ dbUp = TRUE
    /\ cleanupInterval = FALSE
    /\ cleanupFailures = 0
    /\ initialized = FALSE
    /\ queueType \in QueueTypes
    /\ submitOp = "original"
    /\ hasOriginalAdd = FALSE
    /\ listeners = {}
    /\ isDisposed = FALSE
    /\ submit = IdleSubmit
    /\ escaped = FALSE
    /\ InitShutdown
    /\ InitLoop
    /\ config \in Configs
    /\ created = "none"
    /\ rcConfig = NoReconciler
    /\ currentIntervalMs = 0
    /\ consecutiveEmptyRuns = 0
    /\ records = 0
    /\ rows = {}
    /\ nextId = 1
    /\ tx = [t \in Txs |-> IdleTx]
    /\ broker = [j \in JobIds |-> AbsentJob]
    /\ inflight = {}
    /\ rcPc = "idle"
    /\ rcJobs = <<>>
    /\ rcDead = {}
    /\ rcCurrent = "none"
    /\ rcRemoved = FALSE
    /\ rcSubmits = 0

NextConfig ==
    \/ JobGuard_create
    \/ \E f \in FoundCounts, r \in SuccessRates : Scheduler_recordResult(f, r)
    \/ DbDown
    \/ DbUp

SpecConfig == InitConfigSpec /\ [][NextConfig]_vars

----------------------------------------------------------------------------
(* JobGuard.shutdown, called by several callers: each call runs up to its *)
(* first await, then from await to await                                  *)

\* shutdown up to await this.adapter.dispose(): the guard on initialized,
\* reconciler.stop(), clearInterval(cleanupInterval), the call of dispose
shutdown_call(c) ==
    /\ shutdownPc[c] = "none"
    /\ IF ~ initialized
       THEN /\ shutdownPc' = [shutdownPc EXCEPT ![c] = "returned"]
            /\ UNCHANGED <<timers, intervalHandle, isStopped, cleanupInterval, adVars,
                           disposeCalls>>
       ELSE /\ stop
            /\ cleanupInterval' = FALSE
            /\ dispose
            /\ disposeCalls' = disposeCalls + 1
            /\ shutdownPc' = [shutdownPc EXCEPT ![c] = "disposing"]
    /\ UNCHANGED <<dbVars, tx, queueVars, cbVars, isRunning, consecutiveFailures, cycle,
                   dbUp, cleanupFailures, initialized, closeCalls, cfVars, rlVars>>

\* the await of dispose resumes: connectionManager.close() calls pool.end()
shutdown_close(c) ==
    /\ shutdownPc[c] = "disposing"
    /\ closeCalls' = closeCalls + 1
    /\ shutdownPc' = [shutdownPc EXCEPT ![c] = IF closeCalls = 0 THEN "closing"
                                                ELSE "closingAgain"]
    /\ UNCHANGED <<dbVars, tx, queueVars, cbVars, rnVars, jgVars, adVars, disposeCalls,
                   cfVars, rlVars>>

\* pool.end() settles: this.initialized = false and shutdown returns; the
\* end() of a pool that was ended before resolves or rejects (pg rejects
\* it), and shutdown then throws
shutdown_returns(c) ==
    /\ shutdownPc[c] \in {"closing", "closingAgain"}
    /\ \/ /\ initialized' = FALSE
          /\ shutdownPc' = [shutdownPc EXCEPT ![c] = "returned"]
       \/ /\ shutdownPc[c] = "closingAgain"
          /\ shutdownPc' = [shutdownPc EXCEPT ![c] = "failed"]
          /\ UNCHANGED initialized
    /\ UNCHANGED <<dbVars, tx, queueVars, cbVars, rnVars, dbUp, cleanupInterval,
                   cleanupFailures, adVars, disposeCalls, closeCalls, cfVars, rlVars>>

(* SpecShutdown: a coordinator of any adapter variant whose cleanup timer *)
(* fires, and two callers of shutdown                                     *)

NextShutdown ==
    \/ \E c \in ShutdownCallers : shutdown_call(c)
    \/ \E c \in ShutdownCallers : shutdown_close(c)
    \/ \E c \in ShutdownCallers : shutdown_returns(c)
    \/ setupCleanup_timer
    \/ setupCleanup_settled
    \/ DbDown
    \/ DbUp

SpecShutdown == InitAdapterSpec /\ [][NextShutdown]_vars

----------------------------------------------------------------------------
(* Reconciler.run: the re-enqueue loop of one cycle and its rate limit *)

RateOpts == {NULL, 3, 1000}
Outcomes == {"succeeded", "skipped", "threw"}

\* const RATE_LIMIT_MS = Math.floor(1000 / this.config.rateLimitPerSecond)
RATE_LIMIT_MS == 1000 \div rateLimitPerSecond

\* if (reEnqueuedCount < jobsToReEnqueue.length) await this.sleep(RATE_LIMIT_MS)
SleepsAfter(count, length) == count < length

\* the for loop takes the next job, or ends
Loop_next ==
    /\ loopIndex' = loopIndex + 1
    /\ loopPc' = IF loopIndex < loopLength THEN "call" ELSE "idle"

\* a cycle whose harvest returned n jobs to re-enqueue enters the loop
Loop_enter(n, option) ==
    /\ loopPc = "idle"
    /\ loopLength' = n
    /\ loopIndex' = 1
    /\ loopPc' = "call"
    /\ reEnqueuedCount' = 0
    /\ failedCount' = 0
    /\ rateLimitPerSecond' = OrDefault(option, 20)
    /\ lastOutcome' = "none"
    /\ waitedMs' = 0
    /\ UNCHANGED <<dbVars, tx, queueVars, cbVars, rnVars, jgVars, adVars, sdVars, cfVars>>

\* try { await this.adapter.reEnqueueJob(job); reEnqueuedCount++; ... }
\* catch (error) { failedCount++; ... }: a re-enqueue that is skipped
\* returns normally, one that fails throws
Loop_reEnqueueJob(outcome) ==
    /\ loopPc = "call"
    /\ lastOutcome' = outcome
    /\ waitedMs' = 0
    /\ IF outcome = "threw"
       THEN /\ failedCount' = failedCount + 1
            /\ reEnqueuedCount' = reEnqueuedCount
            /\ Loop_next
       ELSE /\ reEnqueuedCount' = reEnqueuedCount + 1
            /\ failedCount' = failedCount
            /\ IF SleepsAfter(reEnqueuedCount + 1, loopLength)
               THEN loopPc' = "sleep" /\ loopIndex' = loopIndex
               ELSE Loop_next
    /\ UNCHANGED <<loopLength, rateLimitPerSecond>>
    /\ UNCHANGED <<dbVars, tx, queueVars, cbVars, rnVars, jgVars, adVars, sdVars, cfVars>>

\* await this.sleep(RATE_LIMIT_MS) resolves
Loop_sleep ==
    /\ loopPc = "sleep"
    /\ waitedMs' = waitedMs + RATE_LIMIT_MS
    /\ Loop_next
    /\ UNCHANGED <<loopLength, reEnqueuedCount, failedCount, rateLimitPerSecond, lastOutcome>>
    /\ UNCHANGED <<dbVars, tx, queueVars, cbVars, rnVars, jgVars, adVars, sdVars, cfVars>>

NextLoop ==
    \/ \E n \in 1..MaxLoopJobs, option \in RateOpts : Loop_enter(n, option)
    \/ \E outcome \in Outcomes : Loop_reEnqueueJob(outcome)
    \/ Loop_sleep

SpecLoop == Init /\ [][NextLoop]_vars

----------------------------------------------------------------------------
(* Properties *)

ActiveRows(jobId) == { r \in rows : r.job_id = jobId /\ r.status \notin Terminal }

\* C1: active-uniqueness.  In every reachable state each key
\* (queue_name, queue_type, job_id) has at most one row whose status is not
\* completed, failed or dead.
C1_ActiveUniqueness ==
    \A j \in JobIds : Cardinality(ActiveRows(j)) <= 1

\* a reused job id: the terminal row of an earlier run of the job, touched
\* by a failure report, next to the pending row of the new submission
C1_Witness ==
    \E r1 \in rows, r2 \in rows :
        /\ r1.id # r2.id
        /\ r1.job_id = r2.job_id
        /\ r1.status = DEAD /\ r1.attempts > 0
        /\ r2.status = PENDING

\* C2: terminal-immutability.  No step changes a field of a row whose
\* status is completed, failed or dead: the row stays as it is (its
\* timestamps only grow older) or it is deleted.
C2_TerminalImmutability ==
    [][\A r \in rows :
          r.status \in Terminal =>
              \/ r \in rows'
              \/ AgeRow(r) \in rows'
              \/ \A q \in rows' : q.id # r.id]_vars

\* C3: attempt-bound.  Every row satisfies attempts <= max_attempts in
\* every reachable state.
C3_AttemptBound ==
    \A r \in rows : r.attempts <= r.max_attempts

RowStatus(id) == { r.status : r \in { q \in rows : q.id = id } }

\* C4: recovery liveness.  A row harvested as stuck (it was stale in
\* processing with attempts < max_attempts) is eventually recovered, also
\* when the broker has lost the job: no such row remains stuck forever.
C4_RecoveryLiveness ==
    \A id \in 1..MaxRows :
        (/\ STUCK \in RowStatus(id)
         /\ rcPc = "remove"
         /\ Head(rcJobs).id = id
         /\ broker[Head(rcJobs).job_id].state = "absent")
            ~> (STUCK \notin RowStatus(id))

\* C5: a job whose row is pending when the broker has lost its data is
\* eventually present in the broker again.
C5_PendingRecovered ==
    \A j \in KeyJobIds :
        (/\ broker[j].state = "absent"
         /\ inflight = {}
         /\ \E r \in rows : r.job_id = j /\ r.status = PENDING)
            ~> (broker[j].state # "absent")

\* C6: no orphan stuck-harvest.  When getAndMarkStuckJobs commits, every
\* row it returns for re-enqueue has status stuck and every id of its dead
\* set has status dead; and two invocations that are open at the same time
\* hold disjoint sets of row ids.
C6_NoOrphanHarvest ==
    [][/\ \A t \in Txs :
            (tx[t].pc = "open" /\ tx'[t].pc = "returned") =>
                /\ \A id \in SeqIds(tx'[t].toReEnqueue) :
                      \E r \in rows' : r.id = id /\ r.status = STUCK
                /\ \A id \in tx'[t].deadJobIds :
                      \E r \in rows' : r.id = id /\ r.status = DEAD
                /\ SeqIds(tx'[t].toReEnqueue) \cup tx'[t].deadJobIds
                      = SeqIds(tx[t].stuckJobs)
       /\ \A t1 \in Txs, t2 \in Txs :
            (t1 # t2 /\ tx'[t1].pc = "open" /\ tx'[t2].pc = "open") =>
                SeqIds(tx'[t1].stuckJobs) \cap SeqIds(tx'[t2].stuckJobs) = {}]_vars

\* two invocations open at the same time, each holding a row
C6_Witness ==
    /\ tx[1].pc = "open" /\ tx[1].stuckJobs # <<>>
    /\ tx[2].pc = "open" /\ tx[2].stuckJobs # <<>>

C8_CycleOutcome ==
    [][(rcPc = "update" /\ rcPc' # "update") =>
          /\ rcSubmits = 1
          /\ \E r \in rows' :
                /\ r.id = Head(rcJobs).id
                /\ r.status = PENDING
                /\ r.attempts = Head(rcJobs).attempts + 1]_vars

\* C9: harvest partition.  At the commit of getAndMarkStuckJobs every
\* selected row with attempts < max_attempts is stuck and returned for
\* re-enqueue, every selected row with attempts >= max_attempts is dead with
\* completed_at set and in the dead set; the two sets are disjoint and cover
\* the selection; the loop passes no row of the dead set to reEnqueueJob.
C9_HarvestPartition ==
    [][\A t \in Txs :
          /\ (tx[t].pc = "open" /\ tx'[t].pc = "returned") =>
                /\ \A r \in rows : r.id \in SeqIds(tx[t].stuckJobs) =>
                      \E n \in rows' :
                         /\ n.id = r.id
                         /\ IF r.attempts < r.max_attempts
                            THEN /\ n.status = STUCK
                                 /\ n.id \in SeqIds(tx'[t].toReEnqueue)
                            ELSE /\ n.status = DEAD
                                 /\ n.completed_at # NULL
                                 /\ n.id \in tx'[t].deadJobIds
                /\ SeqIds(tx'[t].toReEnqueue) \cap tx'[t].deadJobIds = {}
                /\ SeqIds(tx'[t].toReEnqueue) \cup tx'[t].deadJobIds
                      = SeqIds(tx[t].stuckJobs)
                /\ SeqIds(tx[t].stuckJobs) \subseteq { r.id : r \in rows }
          /\ (tx'[t].pc = "returned" /\ tx'[t].toReEnqueue # <<>>) =>
                Head(tx'[t].toReEnqueue).id \notin tx'[t].deadJobIds]_vars

\* a harvest that returned one row for re-enqueue and marked another dead
C9_Witness ==
    \E t \in Txs :
        /\ tx[t].pc = "returned"
        /\ tx[t].toReEnqueue # <<>>
        /\ tx[t].deadJobIds # {}

\* C10: idempotent submit on terminal.  createJob for a key whose existing
\* rows are all terminal adds one new row with status pending and attempts
\* 0, and leaves every existing row as it is.
C10_SubmitOnTerminal ==
    [][\A j \in JobIds, d \in Datas, m \in AttemptsOpts :
          (/\ GET_JOB(rows, j) # {}
           /\ \A r \in GET_JOB(rows, j) : r.status \in Terminal
           /\ Repo_createJob(j, d, m)) =>
              /\ rows \subseteq rows'
              /\ \E n \in rows' \ rows :
                    /\ rows' = rows \cup {n}
                    /\ n.job_id = j /\ n.data = d /\ n.max_attempts = m
                    /\ n.status = PENDING /\ n.attempts = 0]_vars

\* the completed row of an earlier run next to the fresh row of a re-submission
C10_Witness ==
    \E r1 \in rows, r2 \in rows :
        /\ r1.job_id = r2.job_id
        /\ r1.id < r2.id
        /\ r1.status = COMPLETED
        /\ r2.status = PENDING /\ r2.attempts = 0 /\ r2.started_at = NULL

\* C11: UPSERT convergence.  In every state an insertJob for a key is a
\* statement that succeeds (its result satisfies the unique index), and
\* every createJob leaves exactly one non-terminal row for the key: it is
\* pending and carries the data of that submission, whatever rows of the key
\* existed before and whatever their status was.
C11_UpsertConvergence ==
    [][\A j \in KeyJobIds, d \in Datas, m \in AttemptsOpts :
          /\ idx_unique_active_job(INSERT_JOB(rows, nextId, j, d, m))
          /\ createJob(j, d, m) =>
                /\ Cardinality(ActiveRows(j)') = 1
                /\ \A r \in ActiveRows(j)' : r.status = PENDING /\ r.data = d]_vars

\* a second submission of the key met the row of the first after the job
\* had started: one row, pending again, attempts 0, with the later data
C11_Witness ==
    /\ nextId = 2
    /\ \E r \in rows :
          /\ r.job_id = "j1" /\ r.status = PENDING /\ r.data = "d2"
          /\ r.started_at # NULL /\ r.attempts = 0
    /\ Cardinality(ActiveRows("j1")) = 1

\* C12: heartbeat protects long jobs.  A liveness signal of a processing
\* row (the transition to processing, a heartbeat) resets the elapsed time
\* that the harvest compares with stuckThresholdMs, and a harvest selects
\* and marks a processing row only when more than stuckThresholdMs has
\* elapsed since the row's latest liveness signal: a row whose heartbeats
\* arrive at shorter intervals is never harvested.
C12_HeartbeatProtects ==
    [][/\ \A j \in JobIds :
             (Repo_updateHeartbeat(j) \/ Repo_updateJobStatus(j, PROCESSING)) =>
                 \A r \in rows' : (r.job_id = j /\ r.status = PROCESSING) => Liveness(r) = 0
       /\ \A t \in Txs :
             (tx[t].pc = "idle" /\ tx'[t].pc = "open") =>
                 \A i \in 1..Len(tx'[t].stuckJobs) : \E r \in rows :
                     /\ r.id = tx'[t].stuckJobs[i].id
                     /\ r.status = PROCESSING
                     /\ Liveness(r) > StuckThreshold
       /\ \A t \in Txs :
             (tx[t].pc = "open" /\ tx'[t].pc = "returned") =>
                 \A r \in rows : (r.status = PROCESSING /\ r \notin rows') =>
                     Liveness(r) > StuckThreshold]_vars

\* a harvest has marked one job while the other, whose liveness signal is
\* fresh, is still processing
C12_Witness ==
    \E r1 \in rows : \E r2 \in rows :
        /\ r1.status = PROCESSING /\ Liveness(r1) = 0
        /\ r2.status = STUCK /\ r2.id # r1.id
        /\ \E t \in Txs : tx[t].pc = "returned"

\* a job id that has no row
UnknownJobId == "j0"

\* C13: updateHeartbeat(jobId) in any reachable state.  The statement does
\* not fail; a row of another key or in a status other than processing is
\* left as it is (for an unknown job id the table is unchanged); a processing
\* row of the key gets last_heartbeat = now (and updated_at from the
\* trigger) with its status, attempts and every other column unchanged.
C13_HeartbeatFrame ==
    \A j \in JobIds \cup {UnknownJobId} :
        LET after == UPDATE_HEARTBEAT(rows, j) IN
        /\ idx_unique_active_job(after)
        /\ Cardinality(after) = Cardinality(rows)
        /\ \A r \in rows :
              IF r.job_id = j /\ r.status = PROCESSING
              THEN [r EXCEPT !.last_heartbeat = 0, !.updated_at = 0] \in after
              ELSE r \in after

\* one job is processing with a fresh heartbeat; the other has been marked
\* stuck, so that a heartbeat of its worker finds no processing row
C13_Witness ==
    \E r1 \in rows : \E r2 \in rows :
        /\ r1.status = PROCESSING /\ r1.last_heartbeat = 0 /\ r1.updated_at = 0
        /\ r2.status = STUCK /\ r2.last_heartbeat > StuckThreshold
        /\ UPDATE_HEARTBEAT(rows, r2.job_id) = rows

\* C14: circuit breaker opening.  The failure that brings the count of
\* consecutive failures to the threshold or beyond leaves the breaker OPEN;
\* while the breaker is OPEN and no more than the timeout has elapsed since
\* the last failure, no execute call is admitted, and a step in which no
\* earlier admitted operation settles (a refused call among them) leaves
\* state, failure count and last-failure time as they are.
C14_BreakerOpening ==
    [][/\ (failureCount' = failureCount + 1 /\ failureCount' >= CbThreshold) =>
              state' = OPEN
       /\ (state = OPEN /\ lastFailureTime <= CbTimeout) =>
              /\ \A c \in Callers : calls[c] = "none" => calls'[c] = "none"
              /\ calls' = calls =>
                    /\ state' = state
                    /\ failureCount' = failureCount
                    /\ lastFailureTime' \in {lastFailureTime, lastFailureTime + 1}
                    /\ lastResult' \in {lastResult, "rejected"}
              /\ lastResult' # lastResult /\ calls' = calls =>
                    lastFailureTime' = lastFailureTime]_vars

\* the breaker opened at the threshold and has refused a call since, within
\* the timeout
C14_Witness ==
    /\ state = OPEN
    /\ failureCount = CbThreshold
    /\ lastFailureTime <= CbTimeout
    /\ lastResult = "rejected"

\* C15: half-open admission.  Of the calls admitted since the breaker left
\* OPEN, at most one is in flight: once the probe runs, other calls are
\* refused until it settles.
C15_HalfOpenAdmission ==
    Cardinality({ c \in Callers : calls[c] = HALF_OPEN }) <= 1

\* C16: circuit breaker closure.  A success that settles while the breaker
\* is HALF_OPEN (the probe's) leaves it CLOSED with failure count 0; a
\* success in CLOSED resets the count and keeps it CLOSED; the breaker
\* becomes OPEN only by a failure that brings the count of failures since
\* the last success to the threshold.
C16_BreakerClosure ==
    [][/\ (lastResult' = "success" /\ calls' # calls /\ state \in {HALF_OPEN, CLOSED}) =>
              state' = CLOSED /\ failureCount' = 0
       /\ (state # OPEN /\ state' = OPEN) =>
              /\ failureCount' = failureCount + 1
              /\ failureCount' >= CbThreshold]_vars

\* the breaker has been open (a failure is on record within the timeout of
\* the probe's admission) and the probe's success closed it
C16_Witness ==
    /\ state = CLOSED
    /\ failureCount = 0
    /\ lastResult = "success"
    /\ lastFailureTime = CbTimeout + 1
    /\ \E c \in Callers : calls[c] = HALF_OPEN

CyclesInProgress == { c \in Cycles : cycle[c].pc # "none" }

C18_OutageRecovery ==
    (dbUp /\ \E r \in rows : IsStale(r, StuckThreshold))
        ~> (~ dbUp \/ ~ \E r \in rows : IsStale(r, StuckThreshold))

\* C19: cycles of one Reconciler are serial.  At most one invocation of
\* run is past its guards (awaiting the harvest or in the re-enqueue loop)
\* at any time, whatever timers fire and whenever forceRun is called.
C19_SerialCycles ==
    Cardinality(CyclesInProgress) <= 1

\* a cycle started by forceRun is in its loop while the timer armed
\* earlier is still pending and will fire during the cycle
C19_Witness ==
    /\ \E c \in Cycles : cycle[c].pc = "loop"
    /\ isRunning /\ ~ isStopped
    /\ timers > 0

\* C20: after stop() no invocation of run gets past its guards (no harvest
\* is called, none is refused and counted), and a cycle in flight does not
\* re-arm the timer; after shutdown() has cleared the cleanup interval no
\* cleanup run starts; when shutdown has returned both hold.
C20_StopIsFinal ==
    [][/\ isStopped =>
              /\ isStopped'
              /\ \A c \in Cycles : cycle[c].pc = "none" => cycle'[c].pc = "none"
              /\ consecutiveFailures' > consecutiveFailures =>
                    \E c \in Cycles : cycle[c].pc = "harvest" /\ cycle'[c].pc = "none"
              /\ timers' <= timers
       /\ ~ cleanupInterval =>
              /\ ~ cleanupInterval'
              /\ calls["cleanup"] = "none" =>
                    calls'["cleanup"] = "none" /\ cleanupFailures' = cleanupFailures
       /\ ~ initialized => isStopped /\ ~ cleanupInterval]_vars

\* stop was called while a cycle was in flight and a timer left behind by
\* a forceRun is still pending
C20_Witness ==
    /\ isStopped
    /\ timers > 0
    /\ CyclesInProgress # {}

\* the wrapped submit has returned to the producer
SubmitReturned == submit.pc = "idle" /\ submit.via = "wrapped"

SubmitInvalid ==
    validateJobData(submit.nameLength, submit.byteLength, submit.serializable) # "none"

\* C21: when a job submitted through the wrapper fails validation (name
\* longer than 255 characters, payload larger than 1 048 576 bytes or not
\* serializable), the submit ends with the error thrown to the caller and
\* no row is written for the job.
C21_SubmitValidation ==
    (SubmitReturned /\ SubmitInvalid) => (submit.result = "error" /\ ~ submit.wrote)

\* C22: no error of the database (failed query, open circuit, exhausted
\* pool) leaves a handler: nothing is thrown to the producer or into the
\* emitter by the submit path, the event handlers or the heartbeat, and a
\* wrapped submit that has returned returned the broker's job, enqueued once.
C22_FailuresContained ==
    /\ ~ escaped
    /\ SubmitReturned => (submit.result = "job" /\ submit.adds = 1)

\* a valid job was submitted while the circuit was open: createJob was
\* refused, no row was written, the producer has the job
C22_Witness ==
    /\ SubmitReturned /\ ~ SubmitInvalid
    /\ ~ submit.wrote /\ rows = {}
    /\ submit.result = "job"
    /\ state = OPEN /\ lastResult = "rejected"

\* C26: once an adapter is disposed, the queue's submit operation is the
\* original one again and none of its lifecycle listeners is attached.
C26_DisposeRoundTrip ==
    isDisposed => (submitOp = "original" /\ listeners = {})

\* the coordinator was created and has a reconciler
HasReconciler == created = "ready" /\ rcConfig # NoReconciler

\* C23: for every base interval and every sequence of recordResult calls
\* the scheduler's current interval, its initial value included, lies
\* between max(5000, base/4) and base*4, and that lower bound does not
\* exceed the upper bound.
C23_SchedulerBounds ==
    HasReconciler =>
        /\ minIntervalMs <= maxIntervalMs
        /\ minIntervalMs <= currentIntervalMs
        /\ currentIntervalMs <= maxIntervalMs

\* C24 as stated: whenever reconciliation.stuckThresholdMs is given and
\* below 60 000, JobGuard.create fails with ReconciliationError.
C24_ThresholdFloor ==
    (created # "none" /\ config.stuckThresholdMs # NULL
        /\ config.stuckThresholdMs < MIN_STUCK_THRESHOLD)
    => created = "ReconciliationError"

\* C24 amended: a stuckThresholdMs that is given, not 0 and below 60 000
\* makes JobGuard.create fail with ReconciliationError when reconciliation
\* is enabled and the connection test passed; and no reconciler ever
\* exists with a stuck threshold below 60 000.
C24_ThresholdFloorAmended ==
    /\ (created \notin {"none", "PostgresConnectionError"} /\ config.enabled
          /\ config.stuckThresholdMs \notin {NULL, 0}
          /\ config.stuckThresholdMs < MIN_STUCK_THRESHOLD)
       => created = "ReconciliationError"
    /\ HasReconciler => rcConfig.stuckThresholdMs >= MIN_STUCK_THRESHOLD

\* create was refused for a threshold of 59 999
C24_Witness ==
    /\ created = "ReconciliationError"
    /\ config.stuckThresholdMs = 59999
    /\ rcConfig = NoReconciler

\* C25: whatever the number of shutdown calls and however they overlap,
\* the pool is closed at most once and no call fails.
C25_ShutdownIdempotent ==
    /\ closeCalls <= 1
    /\ \A c \in ShutdownCallers : shutdownPc[c] # "failed"

\* C27: in every reachable state and for every row, completed_at is null
\* exactly when the status is pending, processing or stuck, and a row
\* that is no longer pending has its started_at set.
C27_StatusPhase ==
    \A r \in rows :
        /\ (r.completed_at = NULL) <=> (r.status \notin Terminal)
        /\ r.status # PENDING => r.started_at # NULL

\* the edges of the status table, with failed -> processing for a failed
\* job the broker executes again
StatusEdges ==
    { <<PENDING, PROCESSING>>, <<PROCESSING, COMPLETED>>, <<PROCESSING, FAILED>>,
      <<PROCESSING, DEAD>>, <<PROCESSING, STUCK>>, <<STUCK, PENDING>>, <<STUCK, DEAD>>,
      <<FAILED, PROCESSING>> }

\* C28: every step inserts rows as pending and changes the status of a
\* row only along an edge of the status table.
C28_StateMachine ==
    [][ /\ \A q \in rows' : (\A r \in rows : r.id # q.id) => q.status = PENDING
        /\ \A r \in rows : \A q \in rows' :
              (q.id = r.id /\ q.status # r.status) => <<r.status, q.status>> \in StatusEdges
      ]_vars

\* C29: updateJobError on a row with attempts = a and max_attempts = m sets
\* attempts to a + 1 and the status to dead, with completed_at set, if
\* a + 1 >= m and to failed otherwise; so after the step a row whose attempts
\* equal its max_attempts is dead. Failure events that arrive together are
\* applied one statement after the other.
C29_FailureTransition ==
    [][ \A j \in KeyJobIds :
          updateJobError(j) =>
             \A r \in GET_JOB(rows, j) : \E q \in rows' :
                /\ q.id = r.id
                /\ q.attempts = r.attempts + 1
                /\ q.status = IF r.attempts + 1 >= r.max_attempts THEN DEAD ELSE FAILED
                /\ q.status = DEAD => q.completed_at = 0
                /\ q.attempts = q.max_attempts => q.status = DEAD
      ]_vars

\* the second failure of a job with max_attempts = 2 has just made it dead
C29_Witness ==
    \E r \in rows :
        /\ r.attempts = 2 /\ r.max_attempts = 2
        /\ r.status = DEAD /\ r.completed_at = 0 /\ r.updated_at = 0

\* C30: a row disappears only in a deleteOldJobs step, and only if it is
\* completed, failed or dead with a completed_at older than the cutoff.
C30_CleanupSafety ==
    [][ \A r \in rows :
          (\A q \in rows' : q.id # r.id) =>
             /\ deleteOldJobs(RetentionDays)
             /\ r.status \in Terminal
             /\ r.completed_at # NULL
             /\ r.completed_at > RetentionDays
      ]_vars

\* the first row of the key was deleted and the second, not terminal, is
\* still there with an old completed_at
C30_Witness ==
    /\ nextId = 3
    /\ Cardinality(rows) = 1
    /\ \E r \in rows : r.id = 2 /\ r.status \notin Terminal
                       /\ r.completed_at # NULL /\ r.completed_at > RetentionDays

\* C36: under every interleaving of overlapping execute calls, an OPEN
\* breaker has counted at least CbThreshold consecutive failures, and a
\* breaker is never HALF_OPEN right after a call has failed (a failed probe
\* has returned it to OPEN).
C36_BreakerConsistency ==
    /\ state = OPEN => failureCount >= CbThreshold
    /\ lastResult = "failure" => state # HALF_OPEN

\* C37: at most one setTimeout callback of the Reconciler is pending.
C37_SingleTimer == timers <= 1

\* the rows of a key in a terminal status
TerminalRows(jobId) == { r \in rows : r.job_id = jobId /\ r.status \in Terminal }

\* C33: when a job id has an older terminal row and a newer non-terminal
\* row, the handler of the 'active' event moves the non-terminal row to
\* processing, and the re-verify read of re-enqueue sees the status of the
\* non-terminal row (it goes on to the removal only if that row is stuck,
\* and always goes on if it is).
C33_ReusedJobId ==
    [][/\ \A m \in inflight :
            (/\ handleJobStarted(m)
             /\ TerminalRows(m.jobId) # {}
             /\ ActiveRows(m.jobId) # {})
            => \A r \in ActiveRows(m.jobId) :
                  \E r2 \in rows' : r2.id = r.id /\ r2.status = PROCESSING
       /\ (/\ reEnqueueJob_verify
           /\ TerminalRows(Head(rcJobs).job_id) # {}
           /\ ActiveRows(Head(rcJobs).job_id) # {})
          => (rcPc' = "remove" <=>
                \E r \in ActiveRows(Head(rcJobs).job_id) : r.status = STUCK)]_vars

\* C35: the final updateJobStatus(PENDING) of reEnqueueJob does not replace
\* a status that a lifecycle event wrote after the re-verify read: no row
\* that is processing or completed becomes pending by that write.
C35_FinalWriteGuarded ==
    [][reEnqueueJob_update =>
         \A r \in GET_JOB(rows, Head(rcJobs).job_id) :
            r.status \in {PROCESSING, COMPLETED} =>
               \E r2 \in rows' : r2.id = r.id /\ r2.status = r.status]_vars

\* C34: bounded recovery.  A job whose every execution goes stale in
\* processing without reporting a failure is re-enqueued only finitely
\* often: from some point on no re-enqueue reaches the broker add any more
\* (the harvest has put the row in the dead set).
C34_BoundedRecovery == <>[](rcPc # "add")

\* C38: retention liveness.  With the cleanup timer firing and the database
\* available, no row stays in a terminal status for ever: it is eventually
\* deleted (or has left the terminal status).
C38_RetentionLiveness ==
    \A id \in 1..MaxRows :
        (RowStatus(id) \cap Terminal # {}) ~> (RowStatus(id) \cap Terminal = {})

\* C39: queue-type isolation of the harvest.  The commit of
\* getAndMarkStuckJobs called by the reconciler of the adapter of type
\* queueType leaves every row of another queue_type as it is.
C39_QueueTypeIsolation ==
    [][\A t \in Txs :
          getAndMarkStuckJobs_commit(t) =>
             \A r \in rows : r.queue_type # queueType => r \in rows']_vars

\* C40: failed construction leaves the broker untouched.  Whenever
\* JobGuard.create has rejected, the queue's submit operation is the
\* original one, no lifecycle listener of the adapter is attached, and no
\* reconciler timer or cleanup timer is running.
C40_FailedCreateClean ==
    created \in {"PostgresConnectionError", "ReconciliationError"} =>
        /\ submitOp = "original"
        /\ listeners = {}
        /\ timers = 0 /\ ~ intervalHandle
        /\ ~ cleanupInterval

\* the broker has finished the job and no handler write for it is pending
BrokerFinished(jobId) ==
    /\ broker[jobId].state \in {"completed", "failed"}
    /\ \A m \in inflight : m.jobId # jobId

\* C32: lifecycle events of one job take effect in emission order.  Once
\* the broker has finished a job and all handler writes for it have been
\* executed, the row has the status of the last event: completed after
\* 'completed', failed or dead after 'failed'; in particular it is not
\* processing.
C32_EmissionOrder ==
    \A j \in JobIds :
        BrokerFinished(j) =>
            \A r \in GET_JOB(rows, j) :
                IF broker[j].state = "completed" THEN r.status = COMPLETED
                ELSE r.status \in {FAILED, DEAD}

\* C31: re-enqueue rate limiting.  Within one cycle, when the loop is about
\* to make an adapter re-enqueue call that is not the first of the cycle,
\* a wait of floor(1000 / rateLimitPerSecond) ms has passed since the
\* previous call, whether that call succeeded, was skipped or threw.
C31_RateLimit ==
    (loopPc = "call" /\ loopIndex > 1) => waitedMs = RATE_LIMIT_MS

====
